---- MODULE Spec2Model ----
(***************************************************************************)
(* GenStudio layout engine: the text-layer collection of the App component *)
(* and the pointer interaction state machine of the Canvas component.      *)
(*                                                                         *)
(* JavaScript numbers are modelled as exact rationals [n, d] with d >= 0   *)
(* in lowest terms; d = 0 encodes the non-finite values: 0/0 is NaN, 1/0   *)
(* is Infinity and -1/0 is -Infinity.  Floating-point rounding is not      *)
(* modelled.                                                               *)
(***************************************************************************)
EXTENDS Integers, Sequences, FiniteSets, TLC

VARIABLES
    textLayers,   \* project.textLayers: the ordered layer collection (App state)
    width,        \* project.width  (canvas pixels)
    height,       \* project.height (canvas pixels)
    selectedId,   \* Canvas state: id of the selected layer, or NullId
    interaction,  \* Canvas state: the active pointer interaction, or Idle
    nextId,       \* the next fresh value crypto.randomUUID() hands out
    project,      \* the other fields of the App's project state
    error,        \* App state: the error message shown, or NoError
    generate,     \* the running handleGenerate and handleRegenerateLayout calls:
                  \* the position of each, with its closure
    download,     \* the position of handleDownload, with its closure and canvas
    view          \* App state: zoomLevel, isFitToScreen and viewportSize

\* the App state beside the layers and the canvas size, and the two async handlers
appVars == <<project, error, generate, download, view>>

vars == <<textLayers, width, height, selectedId, interaction, nextId, appVars>>

----------------------------------------------------------------------------
(* Bounds of the model *)

MaxLayers == 2      \* at most this many layers in the collection
MaxId == 2          \* at most this many ids are ever handed out
MaxPointer == 1     \* pointer positions are PointerStep * (0..MaxPointer)
MaxText == 5        \* texts handed to the line wrapping have at most this many characters
MaxFlows == 2       \* at most this many generate and remix calls run at a time

----------------------------------------------------------------------------
(* Numbers *)

Abs(i) == IF i < 0 THEN -i ELSE i

Sign(i) == IF i < 0 THEN -1 ELSE IF i > 0 THEN 1 ELSE 0

RECURSIVE GCD(_, _)
GCD(a, b) == IF b = 0 THEN a ELSE GCD(b, a % b)

\* the number n/d in canonical form
R(n, d) ==
    IF d = 0 THEN [n |-> Sign(n), d |-> 0]
    ELSE LET g == GCD(Abs(n), Abs(d))
         IN  [n |-> (Sign(d) * n) \div g, d |-> Abs(d) \div g]

I(i) == [n |-> i, d |-> 1]

NaN == [n |-> 0, d |-> 0]

IsNaN(a) == a.d = 0 /\ a.n = 0

IsFinite(a) == a.d # 0

RAdd(a, b) ==
    IF IsNaN(a) \/ IsNaN(b) THEN NaN
    ELSE IF a.d = 0 /\ b.d = 0 THEN (IF a.n = b.n THEN a ELSE NaN)
    ELSE R(a.n * b.d + b.n * a.d, a.d * b.d)

RNeg(a) == [n |-> -a.n, d |-> a.d]

RSub(a, b) == RAdd(a, RNeg(b))

RMul(a, b) == R(a.n * b.n, a.d * b.d)

RRecip(b) ==
    IF b.d = 0 THEN (IF b.n = 0 THEN NaN ELSE I(0))
    ELSE IF b.n = 0 THEN [n |-> 1, d |-> 0]
    ELSE R(Sign(b.n) * b.d, Abs(b.n))

RDiv(a, b) == RMul(a, RRecip(b))

\* a < b as JavaScript compares numbers (false when either is NaN)
RLess(a, b) ==
    /\ ~IsNaN(a)
    /\ ~IsNaN(b)
    /\ IF a.d = 0 /\ b.d = 0 THEN a.n < b.n ELSE a.n * b.d < b.n * a.d

RLeq(a, b) == ~IsNaN(a) /\ ~IsNaN(b) /\ ~RLess(b, a)

\* Math.max and Math.min: NaN when either argument is NaN
MathMax(a, b) == IF IsNaN(a) \/ IsNaN(b) THEN NaN ELSE IF RLess(a, b) THEN b ELSE a

MathMin(a, b) == IF IsNaN(a) \/ IsNaN(b) THEN NaN ELSE IF RLess(b, a) THEN b ELSE a

\* a JavaScript value used as a condition: 0 and NaN are falsy
Falsy(a) == IsNaN(a) \/ (a.d # 0 /\ a.n = 0)

\* v || dflt
OrElse(v, dflt) == IF Falsy(v) THEN dflt ELSE v

----------------------------------------------------------------------------
(* Inputs of the model *)

\* the step of the pointer grid in screen pixels: 70% of the default canvas
PointerStep == [x |-> 756, y |-> 945]

\* the mouse positions (clientX, clientY) an event can carry
Points == {[clientX |-> k * PointerStep.x, clientY |-> k * PointerStep.y] : k \in 0..MaxPointer}

\* a finer grid: steps of 35% of the canvas width and 70% of its height
FineStep == [x |-> 378, y |-> 945]

FinePoints == {[clientX |-> k * FineStep.x, clientY |-> (k % 2) * FineStep.y] : k \in 0..(MaxPointer + 1)}

\* the preview scales in force when an event is handled
Scales == {R(1, 2), I(1)}

Aligns == {"left", "center", "right"}

\* what parseInt(e.target.value) of the sidebar's Width field can give
SidebarWidths == {I(0)}

----------------------------------------------------------------------------
(* State *)

\* useState<string | null>(null) of selectedId: no layer is selected
NullId == 0

\* useState<InteractionState | null>(null): no interaction is active
Idle == [type |-> "null"]

\* useState<string | null>(null) of error: no error is shown
NoError == "null"

\* background: null and svgContent: null of the project state
NoImage == "null"

NoSvg == "null"

\* a string is the sequence of its characters; this is ''
EmptyString == <<>>

\* the text of a layer added by hand
NewText == <<"N", "e", "w", " ", "T", "e", "x", "t">>

\* NewLayer placed at the top left corner
NewLayer_TopLeft(id) ==
    [id |-> id, text |-> NewText, x |-> I(0), y |-> I(0), fontSize |-> I(24),
     fontSizePct |-> I(3), align |-> "left", verticalAlign |-> "top",
     boxWidth |-> I(80)]

\* the newLayer of addTextLayer, with the given id
NewLayer(id) ==
    [id |-> id, text |-> NewText, x |-> I(50), y |-> I(50), fontSize |-> I(24),
     fontSizePct |-> I(3), align |-> "center", verticalAlign |-> "center",
     boxWidth |-> I(80)]

\* getInitialState without textLayers, width and height
InitialProject ==
    [assetType |-> "POSTER",
     brief |-> EmptyString,
     background |-> NoImage,
     svgContent |-> NoSvg,
     isGenerating |-> FALSE,
     isAnalyzing |-> FALSE]

\* no handleGenerate and no handleRegenerateLayout is running
NoGenerate == <<>>

\* useState(1), useState(true) and useState({ width: 0, height: 0 })
InitialView ==
    [zoomLevel |-> I(1), isFitToScreen |-> TRUE, viewportSize |-> [width |-> 0, height |-> 0]]

\* no handleDownload is running and none has ended yet
NoDownload == [pc |-> "idle", outcome |-> "none"]

\* the App state as the component mounts
InitialApp ==
    /\ project = InitialProject
    /\ error = NoError
    /\ generate = NoGenerate
    /\ download = NoDownload
    /\ view = InitialView

LayerIds == {textLayers[i].id : i \in 1..Len(textLayers)}

\* project.textLayers.find(l => l.id === id), for an id in the collection
Find(id) == textLayers[CHOOSE i \in 1..Len(textLayers) : textLayers[i].id = id]

Init ==
    /\ textLayers = <<>>
    /\ width = 1080
    /\ height = 1350
    /\ selectedId = NullId
    /\ interaction = Idle
    /\ nextId = 1
    /\ InitialApp

----------------------------------------------------------------------------
(* App: the layer collection *)

\* updateTextLayer that inserts the updates as a new layer when no layer has the id
updateTextLayer_Upsert(id, updates) ==
    IF \E i \in 1..Len(textLayers) : textLayers[i].id = id
    THEN [i \in 1..Len(textLayers) |->
            IF textLayers[i].id = id
            THEN [f \in DOMAIN textLayers[i] |->
                    IF f \in DOMAIN updates THEN updates[f] ELSE textLayers[i][f]]
            ELSE textLayers[i]]
    ELSE Append(textLayers,
                [f \in DOMAIN updates \cup {"id"} |-> IF f = "id" THEN id ELSE updates[f]])

\* textLayers.map(layer => layer.id === id ? { ...layer, ...updates } : layer)
updateTextLayer(id, updates) ==
    [i \in 1..Len(textLayers) |->
        IF textLayers[i].id = id
        THEN [f \in DOMAIN textLayers[i] |->
                IF f \in DOMAIN updates THEN updates[f] ELSE textLayers[i][f]]
        ELSE textLayers[i]]

\* textLayers.filter(l => l.id !== id)
removeTextLayer(id) == SelectSeq(textLayers, LAMBDA l : l.id # id)

\* addTextLayer that numbers the new layer by the size of the collection
addTextLayer_LengthId ==
    /\ Len(textLayers) < MaxLayers
    /\ nextId <= MaxId
    /\ textLayers' = Append(textLayers, NewLayer(Len(textLayers) + 1))
    /\ nextId' = nextId + 1
    /\ UNCHANGED <<width, height, selectedId, interaction, appVars>>

\* addTextLayer that puts the new layer in front of the others
addTextLayer_Prepending ==
    /\ Len(textLayers) < MaxLayers
    /\ nextId <= MaxId
    /\ textLayers' = <<NewLayer(nextId)>> \o textLayers
    /\ nextId' = nextId + 1
    /\ UNCHANGED <<width, height, selectedId, interaction, appVars>>

addTextLayer ==
    /\ Len(textLayers) < MaxLayers
    /\ nextId <= MaxId
    /\ textLayers' = Append(textLayers, NewLayer(nextId))
    /\ nextId' = nextId + 1
    /\ UNCHANGED <<width, height, selectedId, interaction, appVars>>

\* ControlPanel: textLayers.map(l => l.id === id ? { ...l, [key]: value } : l)
handleTextLayerChange(id, key, value) ==
    /\ textLayers' = [i \in 1..Len(textLayers) |->
            IF textLayers[i].id = id
            THEN [textLayers[i] EXCEPT ![key] = value]
            ELSE textLayers[i]]
    /\ UNCHANGED <<width, height, selectedId, interaction, nextId, appVars>>

\* the sidebar's field editors of a listed layer: the alignment buttons and
\* the Width input, which stores parseInt of what was typed
SidebarEdit ==
    \E id \in LayerIds :
        \/ \E a \in Aligns : handleTextLayerChange(id, "align", a)
        \/ \E w \in SidebarWidths : handleTextLayerChange(id, "boxWidth", w)

\* the sidebar's trash button
deleteLayer ==
    \E id \in LayerIds :
        /\ textLayers' = SelectSeq(textLayers, LAMBDA l : l.id # id)
        /\ UNCHANGED <<width, height, selectedId, interaction, nextId, appVars>>

----------------------------------------------------------------------------
(* Canvas: the pointer interaction state machine *)

\* Math.max(lo, Math.min(hi, v))
Clamp(v, lo, hi) == MathMax(lo, MathMin(hi, v))

\* container.getBoundingClientRect(): the container is width x height canvas
\* pixels under transform: scale(scale)
BoundingClientRect(scale) ==
    [width |-> RMul(I(width), scale), height |-> RMul(I(height), scale)]

\* DeltaPct with the preview scale left out: screen pixels taken for canvas pixels
DeltaPct_ScaleIgnored(deltaScreen, rectDim, dim) == RMul(RDiv(deltaScreen, dim), I(100))

\* DeltaPct with the screen delta multiplied by the preview scale
DeltaPct_ScaleMultiplied(deltaScreen, rectDim, dim) ==
    LET effectiveScale == RDiv(rectDim, dim)
        deltaPixels == RMul(deltaScreen, effectiveScale)
    IN  RMul(RDiv(deltaPixels, dim), I(100))

\* the percent delta of a screen delta along one axis: rectDim is the
\* container's measured size and dim the canvas size along that axis
DeltaPct(deltaScreen, rectDim, dim) ==
    LET effectiveScale == RDiv(rectDim, dim)
        deltaPixels == RDiv(deltaScreen, effectiveScale)
    IN  RMul(RDiv(deltaPixels, dim), I(100))

\* MovedAnchor clamped to the canvas itself, with no overscroll
MovedAnchor_NoOverscroll(start, deltaPct) == Clamp(RAdd(start, deltaPct), I(0), I(100))

\* the new anchor coordinate of a move
MovedAnchor(start, deltaPct) == Clamp(RAdd(start, deltaPct), I(-20), I(120))

\* ResizedRight with the center-aligned layer growing on one side only
ResizedRight_NoDoubling(align, boxWidth, deltaXPct) ==
    LET newWidth ==
            IF align \in {"left", "center"} THEN RAdd(boxWidth, deltaXPct)
            ELSE RSub(boxWidth, deltaXPct)
    IN  Clamp(newWidth, I(5), I(100))

\* the new boxWidth of a drag of the right handle
ResizedRight(align, boxWidth, deltaXPct) ==
    LET newWidth ==
            IF align = "left" THEN RAdd(boxWidth, deltaXPct)
            ELSE IF align = "center" THEN RAdd(boxWidth, RMul(deltaXPct, I(2)))
            ELSE IF align = "right" THEN RSub(boxWidth, deltaXPct)
            ELSE boxWidth
    IN  Clamp(newWidth, I(5), I(100))

\* ResizedLeft with the sign of the right-aligned case flipped
ResizedLeft_SignFlipped(align, boxWidth, deltaXPct) ==
    LET newWidth ==
            IF align = "right" THEN RAdd(boxWidth, deltaXPct)
            ELSE IF align = "center" THEN RSub(boxWidth, RMul(deltaXPct, I(2)))
            ELSE boxWidth
    IN  Clamp(newWidth, I(5), I(100))

\* the new boxWidth of a drag of the left handle
ResizedLeft(align, boxWidth, deltaXPct) ==
    LET newWidth ==
            IF align = "right" THEN RSub(boxWidth, deltaXPct)
            ELSE IF align = "center" THEN RSub(boxWidth, RMul(deltaXPct, I(2)))
            ELSE boxWidth
    IN  Clamp(newWidth, I(5), I(100))

handleBackgroundClick ==
    /\ selectedId' = NullId
    /\ UNCHANGED <<textLayers, width, height, interaction, nextId, appVars>>

\* the baseline an interaction captures at pointer-down
Started(type, e, id) ==
    [type |-> type,
     layerId |-> id,
     startX |-> e.clientX,
     startY |-> e.clientY,
     initial |-> [x |-> Find(id).x,
                  y |-> Find(id).y,
                  boxWidth |-> OrElse(Find(id).boxWidth, I(80))]]

handleLayerMouseDown(e, id) ==
    /\ selectedId' = id
    /\ interaction' = IF id \in LayerIds THEN Started("moving", e, id) ELSE interaction
    /\ UNCHANGED <<textLayers, width, height, nextId, appVars>>

handleResizeMouseDown(e, id, direction) ==
    /\ interaction' =
            IF id \in LayerIds
            THEN Started(IF direction = "left" THEN "resizing_left" ELSE "resizing_right", e, id)
            ELSE interaction
    /\ UNCHANGED <<textLayers, width, height, selectedId, nextId, appVars>>

\* MoveUpdates where a resize also follows the pointer vertically
MoveUpdates_ResizeMovesY(e, rect) ==
    LET deltaXPct == DeltaPct(I(e.clientX - interaction.startX), rect.width, I(width))
        deltaYPct == DeltaPct(I(e.clientY - interaction.startY), rect.height, I(height))
        layer == Find(interaction.layerId)
    IN  IF interaction.type = "moving"
        THEN [x |-> MovedAnchor(interaction.initial.x, deltaXPct),
              y |-> MovedAnchor(interaction.initial.y, deltaYPct)]
        ELSE IF interaction.type = "resizing_right"
        THEN [boxWidth |-> ResizedRight(layer.align, interaction.initial.boxWidth, deltaXPct),
              y |-> MovedAnchor(interaction.initial.y, deltaYPct)]
        ELSE [boxWidth |-> ResizedLeft(layer.align, interaction.initial.boxWidth, deltaXPct),
              y |-> MovedAnchor(interaction.initial.y, deltaYPct)]

\* MoveUpdates that adds the delta to the layer's current values instead of
\* the baseline captured at pointer-down
MoveUpdates_Accumulating(e, rect) ==
    LET deltaXPct == DeltaPct(I(e.clientX - interaction.startX), rect.width, I(width))
        deltaYPct == DeltaPct(I(e.clientY - interaction.startY), rect.height, I(height))
        layer == Find(interaction.layerId)
    IN  IF interaction.type = "moving"
        THEN [x |-> MovedAnchor(layer.x, deltaXPct),
              y |-> MovedAnchor(layer.y, deltaYPct)]
        ELSE IF interaction.type = "resizing_right"
        THEN [boxWidth |-> ResizedRight(layer.align, OrElse(layer.boxWidth, I(80)), deltaXPct)]
        ELSE [boxWidth |-> ResizedLeft(layer.align, OrElse(layer.boxWidth, I(80)), deltaXPct)]

\* the field updates a pointer-move hands to onUpdateLayer
MoveUpdates(e, rect) ==
    LET deltaXPct == DeltaPct(I(e.clientX - interaction.startX), rect.width, I(width))
        deltaYPct == DeltaPct(I(e.clientY - interaction.startY), rect.height, I(height))
        layer == Find(interaction.layerId)
    IN  IF interaction.type = "moving"
        THEN [x |-> MovedAnchor(interaction.initial.x, deltaXPct),
              y |-> MovedAnchor(interaction.initial.y, deltaYPct)]
        ELSE IF interaction.type = "resizing_right"
        THEN [boxWidth |-> ResizedRight(layer.align, interaction.initial.boxWidth, deltaXPct)]
        ELSE [boxWidth |-> ResizedLeft(layer.align, interaction.initial.boxWidth, deltaXPct)]

\* handleMouseMove without the guard on the interaction: with none active,
\* the move drags the selected layer
handleMouseMove_Unguarded(e, rect) ==
    /\ textLayers' =
            IF interaction = Idle
            THEN (IF selectedId \in LayerIds
                  THEN updateTextLayer(selectedId,
                         [x |-> MovedAnchor(Find(selectedId).x,
                                            DeltaPct(I(e.clientX), rect.width, I(width)))])
                  ELSE textLayers)
            ELSE IF interaction.layerId \notin LayerIds \/ rect.width = I(0)
            THEN textLayers
            ELSE updateTextLayer(interaction.layerId, MoveUpdates(e, rect))
    /\ UNCHANGED <<width, height, selectedId, interaction, nextId, appVars>>

handleMouseMove(e, rect) ==
    /\ textLayers' =
            IF \/ interaction = Idle
               \/ interaction.layerId \notin LayerIds
               \/ rect.width = I(0)
            THEN textLayers
            ELSE updateTextLayer(interaction.layerId, MoveUpdates(e, rect))
    /\ UNCHANGED <<width, height, selectedId, interaction, nextId, appVars>>

\* handleMouseUp that puts the baseline back: the drag is only committed elsewhere
handleMouseUp_Reverting ==
    /\ interaction' = Idle
    /\ textLayers' =
            IF interaction # Idle /\ interaction.layerId \in LayerIds
            THEN updateTextLayer(interaction.layerId,
                    [x |-> interaction.initial.x, y |-> interaction.initial.y])
            ELSE textLayers
    /\ UNCHANGED <<width, height, selectedId, nextId, appVars>>

\* handleMouseUp that also drops the selection
handleMouseUp_Deselecting ==
    /\ interaction' = Idle
    /\ selectedId' = NullId
    /\ UNCHANGED <<textLayers, width, height, nextId, appVars>>

handleMouseUp ==
    /\ interaction' = Idle
    /\ UNCHANGED <<textLayers, width, height, selectedId, nextId, appVars>>

----------------------------------------------------------------------------
(* Canvas: which handler a pointer event on the rendered tree reaches *)

\* the full-surface overlay rendered above every layer while an interaction is active
OverlayShown == interaction # Idle

\* RightHandleShown for every alignment
RightHandleShown_AnyAlign(id) ==
    /\ id \in LayerIds
    /\ selectedId = id

\* a layer's right handle is rendered: the layer is selected, align left or center
RightHandleShown(id) ==
    /\ id \in LayerIds
    /\ selectedId = id
    /\ Find(id).align \in {"left", "center"}

\* a layer's left handle is rendered: the layer is selected, align right or center
LeftHandleShown(id) ==
    /\ id \in LayerIds
    /\ selectedId = id
    /\ Find(id).align \in {"right", "center"}

\* mousedown on the empty container area, or on the overlay that covers it
\* and every layer while an interaction is active; both bubble to the container
PointerDownBackground == handleBackgroundClick

\* PointerDownLayer with no overlay in the way
PointerDownLayer_NoOverlay(points) ==
    \E id \in LayerIds, e \in points : handleLayerMouseDown(e, id)

\* mousedown on a layer's body, at one of the given positions
PointerDownLayer(points) ==
    \E id \in LayerIds, e \in points :
        /\ ~OverlayShown
        /\ handleLayerMouseDown(e, id)

\* mousedown on a resize handle
PointerDownHandle(points) ==
    \E id \in LayerIds, e \in points :
        /\ ~OverlayShown
        /\ \/ RightHandleShown(id) /\ handleResizeMouseDown(e, id, "right")
           \/ LeftHandleShown(id) /\ handleResizeMouseDown(e, id, "left")

\* mousemove over the container
PointerMove(points) ==
    \E e \in points, scale \in Scales : handleMouseMove(e, BoundingClientRect(scale))

\* mouseup over the container
PointerUp == handleMouseUp

\* mouseleave of the container
PointerLeave == handleMouseUp

----------------------------------------------------------------------------
(* The application: layer operations and pointer events in any order *)

PointerDownLayerStep == PointerDownLayer(Points)

PointerDownHandleStep == PointerDownHandle(Points)

PointerMoveStep == PointerMove(Points)

Next ==
    \/ addTextLayer
    \/ SidebarEdit
    \/ deleteLayer
    \/ PointerDownBackground
    \/ PointerDownLayerStep
    \/ PointerDownHandleStep
    \/ PointerMoveStep
    \/ PointerUp
    \/ PointerLeave

Spec == Init /\ [][Next]_vars

----------------------------------------------------------------------------
(* One layer under a finer pointer grid: the application after a single    *)
(* "Add Layer", with the sidebar editors and the pointer events            *)

InitOneLayer ==
    /\ textLayers = <<NewLayer(1)>>
    /\ width = 1080
    /\ height = 1350
    /\ selectedId = NullId
    /\ interaction = Idle
    /\ nextId = 2
    /\ InitialApp

FinePointerDownLayer == PointerDownLayer(FinePoints)

FinePointerDownHandle == PointerDownHandle(FinePoints)

FinePointerMove == PointerMove(FinePoints)

NextOneLayer ==
    \/ SidebarEdit
    \/ PointerDownBackground
    \/ FinePointerDownLayer
    \/ FinePointerDownHandle
    \/ FinePointerMove
    \/ PointerUp
    \/ PointerLeave

SpecOneLayer == InitOneLayer /\ [][NextOneLayer]_vars

----------------------------------------------------------------------------
(* Strings: the sequence of a string's characters                          *)

\* the characters String.prototype.trim strips
WhiteSpace == {" ", "\n", "\t"}

\* text.split(' '): the pieces between single spaces, empty pieces included
RECURSIVE SplitOnSpace(_)
SplitOnSpace(text) ==
    IF \A i \in 1..Len(text) : text[i] # " "
    THEN <<text>>
    ELSE LET i == CHOOSE k \in 1..Len(text) :
                     text[k] = " " /\ \A j \in 1..(k - 1) : text[j] # " "
         IN  <<SubSeq(text, 1, i - 1)>> \o SplitOnSpace(SubSeq(text, i + 1, Len(text)))

\* String.prototype.trim
RECURSIVE Trim(_)
Trim(text) ==
    IF text = <<>> THEN text
    ELSE IF Head(text) \in WhiteSpace THEN Trim(Tail(text))
    ELSE IF text[Len(text)] \in WhiteSpace THEN Trim(SubSeq(text, 1, Len(text) - 1))
    ELSE text

\* the width every glyph measures, spaces included
GlyphWidth == 10

\* ctx.measureText(text).width under a measurement of GlyphWidth per character
measureText(text) == I(Len(text) * GlyphWidth)

\* the upper-case form of the lower-case letters the briefs use
UpperCase == ("h" :> "H") @@ ("i" :> "I")

\* String.prototype.toUpperCase
ToUpperCase(text) ==
    [i \in 1..Len(text) |-> IF text[i] \in DOMAIN UpperCase THEN UpperCase[text[i]] ELSE text[i]]

----------------------------------------------------------------------------
(* Inputs of the generation flow *)

\* what the user types into the Creative Brief field
Briefs == {EmptyString, <<"h", "i">>}

\* the asset types of the selector that the model follows: a raster and a vector one
AssetTypes == {"POSTER", "ICON"}

\* the image generateBackground resolves with
Images == {"data:image/png;base64,AAAA"}

\* the strings generateSvgIcon resolves with: markup, or '' for an empty response
SvgCodes == {"<svg></svg>", ""}

\* what a Dimensions input stores: parseInt of what was typed, 0 for an emptied field
DimensionInputs == {0, 1024}

HelloWorldFoo == <<"H", "E", "L", "L", "O", " ", "W", "O", "R", "L", "D", " ", "F", "O", "O">>

\* the layer objects a layout response can hold: the schema's optional
\* verticalAlign and boxWidth may be absent, and a malformed one lacks required fields
ResponseLayers ==
    { [text |-> HelloWorldFoo, x |-> I(10), y |-> I(10), fontSize |-> I(5),
       align |-> "left", verticalAlign |-> "top", boxWidth |-> I(50)],
      [text |-> HelloWorldFoo, x |-> I(10), y |-> I(10), fontSize |-> I(5),
       align |-> "left", verticalAlign |-> "top", boxWidth |-> I(10)],
      [text |-> <<"a", " ", "a">>, x |-> I(50), y |-> I(50), fontSize |-> I(1),
       align |-> "center", verticalAlign |-> "bottom"],
      [text |-> <<"a">>] }

\* the values JSON.parse can give for a response that parses: an object with a
\* textLayers array of up to n layers, or an object without textLayers
ResponseValues(n) ==
    {[textLayers |-> layers] : layers \in UNION {[1..k -> ResponseLayers] : k \in 0..n}}
    \cup {[note |-> "none"]}

\* how the remote layout call ends: it throws, or it returns a response whose
\* text is empty, does not parse, or parses to a value
LayoutResponses(n) ==
    {[kind |-> "throws"], [kind |-> "empty"], [kind |-> "unparseable"]}
    \cup {[kind |-> "parses", value |-> v] : v \in ResponseValues(n)}

----------------------------------------------------------------------------
(* The generation flow: ControlPanel inputs, handleGenerate, suggestLayout  *)

\* x is neither null nor ''
Truthy(x) == x \notin {"null", ""}

\* ControlPanel: const hasContent = !!project.background || !!project.svgContent
hasContent == Truthy(project.background) \/ Truthy(project.svgContent)

\* ControlPanel: the Creative Brief textarea
setBrief ==
    \E brief \in Briefs :
        /\ project' = [project EXCEPT !.brief = brief]
        /\ UNCHANGED <<textLayers, width, height, selectedId, interaction, nextId,
                       error, generate, download, view>>

\* ControlPanel: an asset type button, disabled once there is content
selectAssetType ==
    \E type \in AssetTypes :
        /\ ~hasContent
        /\ project' = [project EXCEPT !.assetType = type]
        /\ width' = IF type = "POSTER" THEN 1080 ELSE IF type = "SLIDE" THEN 1920 ELSE 1024
        /\ height' = IF type = "POSTER" THEN 1350 ELSE IF type = "SLIDE" THEN 1080 ELSE 1024
        /\ UNCHANGED <<textLayers, selectedId, interaction, nextId, error, generate, download, view>>

\* Math.floor
MathFloor(a) == IF IsFinite(a) THEN I(a.n \div a.d) ELSE a

\* calculatePixelFontSize; percent is a number or, for a missing field, NaN
calculatePixelFontSize(w, h, percent) ==
    LET baseDimension == MathMin(w, h)
    IN  MathMax(I(12), MathFloor(RMul(baseDimension, RDiv(percent, I(100)))))

\* the catch block of suggestLayout
FallbackSuggestion(brief) ==
    [textLayers |->
        <<[text |-> ToUpperCase(brief), x |-> I(50), y |-> I(50), fontSize |-> I(8),
           align |-> "center", verticalAlign |-> "center", boxWidth |-> I(80)]>>]

\* what suggestLayout resolves with for a response that was returned
suggestLayout(response, brief) ==
    IF response.kind = "parses" THEN response.value ELSE FallbackSuggestion(brief)

\* a suggested layer as handleGenerate stores it, with the given id
StoredLayer(layer, id) ==
    LET given(f) == f \in DOMAIN layer
        pct == IF given("fontSize") THEN layer.fontSize ELSE NaN
        added == [id |-> id,
                  fontSize |-> calculatePixelFontSize(I(width), I(height), pct),
                  boxWidth |-> IF given("boxWidth") THEN OrElse(layer.boxWidth, I(80)) ELSE I(80),
                  verticalAlign |-> IF given("verticalAlign") THEN layer.verticalAlign ELSE "center"]
        kept == IF given("fontSize") THEN [fontSizePct |-> layer.fontSize] ELSE <<>>
    IN  [f \in DOMAIN layer \cup DOMAIN added \cup DOMAIN kept |->
            IF f \in DOMAIN added THEN added[f]
            ELSE IF f \in DOMAIN kept THEN kept[f]
            ELSE layer[f]]

\* the running calls without the one at position i
Without(i) ==
    [j \in 1..(Len(generate) - 1) |-> IF j < i THEN generate[j] ELSE generate[j + 1]]

\* the catch block of handleGenerate, for the call at position i
GenerateFailed(i, message) ==
    /\ error' = message
    /\ project' = [project EXCEPT !.isGenerating = FALSE, !.isAnalyzing = FALSE]
    /\ generate' = Without(i)
    /\ UNCHANGED <<textLayers, width, height, selectedId, interaction, nextId, download, view>>

\* a click on Generate, enabled while the project is neither generating nor analyzing
handleGenerate ==
    /\ ~project.isGenerating
    /\ ~project.isAnalyzing
    /\ Len(generate) < MaxFlows
    /\ IF project.brief = EmptyString
       THEN /\ error' = "Please enter a brief description."
            /\ UNCHANGED <<textLayers, project, generate>>
       ELSE /\ error' = NoError
            /\ project' = [project EXCEPT !.isGenerating = TRUE,
                                          !.background = NoImage,
                                          !.svgContent = NoSvg]
            /\ textLayers' = <<>>
            /\ generate' = Append(generate,
                                  [pc |-> IF project.assetType \in {"ICON", "LOGO"}
                                          THEN "generateSvgIcon" ELSE "generateBackground",
                                   brief |-> project.brief])
    /\ UNCHANGED <<width, height, selectedId, interaction, nextId, download, view>>

\* handleGenerate after await generateSvgIcon: the markup, or the call threw
svgIconReturned ==
    \E i \in 1..Len(generate) :
        /\ generate[i].pc = "generateSvgIcon"
        /\ \/ \E svgCode \in SvgCodes :
                /\ project' = [project EXCEPT !.svgContent = svgCode, !.isGenerating = FALSE]
                /\ textLayers' = <<>>
                /\ generate' = Without(i)
                /\ UNCHANGED <<width, height, selectedId, interaction, nextId, error,
                               download, view>>
           \/ GenerateFailed(i, "Failed to generate content.")

\* handleGenerate after await generateBackground: the image, or the call threw
backgroundReturned ==
    \E i \in 1..Len(generate) :
        /\ generate[i].pc = "generateBackground"
        /\ \/ \E imageBase64 \in Images :
                /\ project' = [project EXCEPT !.background = imageBase64,
                                              !.isGenerating = FALSE,
                                              !.isAnalyzing = TRUE]
                /\ generate' = [generate EXCEPT ![i].pc = "suggestLayout"]
                /\ UNCHANGED <<textLayers, width, height, selectedId, interaction, nextId,
                               error, download, view>>
           \/ GenerateFailed(i, "Failed to generate content.")

\* layoutSuggestion.textLayers.map(...) is evaluated inside the state updater,
\* which runs after setProject has returned: thrown there, the TypeError of a
\* suggestion without textLayers passes the handler's try block by, no catch
\* block runs and the project keeps its flags
UpdaterThrows(i) ==
    /\ generate' = Without(i)
    /\ UNCHANGED <<project, textLayers, width, height, selectedId, interaction, nextId,
                   error, download, view>>

\* the layers of a suggestion as they are stored, with fresh ids, their font
\* sizes computed for a canvas of w x h pixels
StoredLayers(layers, w, h) ==
    [k \in 1..Len(layers) |->
        [StoredLayer(layers[k], nextId + k - 1)
            EXCEPT !.fontSize = calculatePixelFontSize(I(w), I(h),
                                    IF "fontSize" \in DOMAIN layers[k]
                                    THEN layers[k].fontSize ELSE NaN)]]

\* handleGenerate after await suggestLayout, for the call at position i and
\* the way the remote call ended
layoutReturned(i, response) ==
    /\ i \in 1..Len(generate)
    /\ generate[i].pc = "suggestLayout"
    /\ IF response.kind = "throws"
       THEN GenerateFailed(i, "Failed to generate content.")
       ELSE LET layoutSuggestion == suggestLayout(response, generate[i].brief)
            IN  IF "textLayers" \notin DOMAIN layoutSuggestion
                THEN \/ GenerateFailed(i, "Cannot read properties of undefined (reading 'map')")
                     \/ UpdaterThrows(i)
                ELSE LET layers == layoutSuggestion.textLayers
                     IN  /\ nextId + Len(layers) - 1 <= MaxId
                         /\ textLayers' = StoredLayers(layers, width, height)
                         /\ nextId' = nextId + Len(layers)
                         /\ project' = [project EXCEPT !.isAnalyzing = FALSE]
                         /\ generate' = Without(i)
                         /\ UNCHANGED <<width, height, selectedId, interaction,
                                        error, download, view>>

\* a click on Remix Layout, shown while there is a background and no analysis
handleRegenerateLayout ==
    /\ Truthy(project.background)
    /\ ~project.isAnalyzing
    /\ Len(generate) < MaxFlows
    /\ project' = [project EXCEPT !.isAnalyzing = TRUE]
    /\ generate' = Append(generate,
                          [pc |-> "regenerateLayout", brief |-> project.brief,
                           width |-> width, height |-> height])
    /\ UNCHANGED <<textLayers, width, height, selectedId, interaction, nextId, error,
                   download, view>>

\* RegenerateFailed that also drops the layers the failed remix was to replace
RegenerateFailed_DropsLayers(i) ==
    /\ error' = "Failed to regenerate layout."
    /\ project' = [project EXCEPT !.isAnalyzing = FALSE]
    /\ textLayers' = <<>>
    /\ generate' = Without(i)
    /\ UNCHANGED <<width, height, selectedId, interaction, nextId, download, view>>

\* the catch block of handleRegenerateLayout, for the call at position i
RegenerateFailed(i) ==
    /\ error' = "Failed to regenerate layout."
    /\ project' = [project EXCEPT !.isAnalyzing = FALSE]
    /\ generate' = Without(i)
    /\ UNCHANGED <<textLayers, width, height, selectedId, interaction, nextId, download, view>>

\* handleRegenerateLayout after await suggestLayout: the font sizes are
\* computed from the width and the height the call closed over
regenerateLayoutReturned(i, response) ==
    /\ i \in 1..Len(generate)
    /\ generate[i].pc = "regenerateLayout"
    /\ IF response.kind = "throws"
       THEN RegenerateFailed(i)
       ELSE LET layoutSuggestion == suggestLayout(response, generate[i].brief)
            IN  IF "textLayers" \notin DOMAIN layoutSuggestion
                THEN RegenerateFailed(i) \/ UpdaterThrows(i)
                ELSE LET layers == layoutSuggestion.textLayers
                     IN  /\ nextId + Len(layers) - 1 <= MaxId
                         /\ textLayers' = StoredLayers(layers, generate[i].width,
                                                       generate[i].height)
                         /\ nextId' = nextId + Len(layers)
                         /\ project' = [project EXCEPT !.isAnalyzing = FALSE]
                         /\ generate' = Without(i)
                         /\ UNCHANGED <<width, height, selectedId, interaction,
                                        error, download, view>>

\* handleReset that clears the artwork and keeps the text layers
handleReset_KeepsLayers ==
    /\ hasContent
    /\ \E confirmed \in BOOLEAN :
        IF confirmed
        THEN /\ project' = [InitialProject EXCEPT !.assetType = project.assetType]
             /\ error' = NoError
             /\ view' = [view EXCEPT !.isFitToScreen = TRUE]
             /\ UNCHANGED <<textLayers, width, height, selectedId, interaction, nextId,
                            generate, download>>
        ELSE UNCHANGED vars

\* a click on New, shown once there is content, and the answer to window.confirm
handleReset ==
    /\ hasContent
    /\ \E confirmed \in BOOLEAN :
        IF confirmed
        THEN /\ project' = [InitialProject EXCEPT !.assetType = project.assetType]
             /\ textLayers' = <<>>
             /\ error' = NoError
             /\ view' = [view EXCEPT !.isFitToScreen = TRUE]
             /\ UNCHANGED <<width, height, selectedId, interaction, nextId, generate, download>>
        ELSE UNCHANGED vars

\* ControlPanel: a Dimensions input, disabled once there is content
handleDimensionChange ==
    /\ ~hasContent
    /\ \E val \in DimensionInputs :
        \/ width' = val /\ UNCHANGED height
        \/ height' = val /\ UNCHANGED width
    /\ UNCHANGED <<textLayers, selectedId, interaction, nextId, appVars>>

----------------------------------------------------------------------------
(* The preview scale: zoom, fit to screen and the observed viewport        *)

\* the contentRect sizes the ResizeObserver of the scroll container reports
ViewportSizes ==
    {[width |-> 0, height |-> 0], [width |-> 60, height |-> 60],
     [width |-> 1000, height |-> 800], [width |-> 2000, height |-> 2000]}

\* the ResizeObserver callback
setViewportSize ==
    /\ \E size \in ViewportSizes : view' = [view EXCEPT !.viewportSize = size]
    /\ UNCHANGED <<textLayers, width, height, selectedId, interaction, nextId,
                   project, error, generate, download>>

\* handleZoomIn with the upper limit at 400%
handleZoomIn_CapFour ==
    /\ view' = [view EXCEPT !.isFitToScreen = FALSE,
                            !.zoomLevel = MathMin(RAdd(@, R(1, 10)), I(4))]
    /\ UNCHANGED <<textLayers, width, height, selectedId, interaction, nextId,
                   project, error, generate, download>>

handleZoomIn ==
    /\ view' = [view EXCEPT !.isFitToScreen = FALSE,
                            !.zoomLevel = MathMin(RAdd(@, R(1, 10)), I(3))]
    /\ UNCHANGED <<textLayers, width, height, selectedId, interaction, nextId,
                   project, error, generate, download>>

handleZoomOut ==
    /\ view' = [view EXCEPT !.isFitToScreen = FALSE,
                            !.zoomLevel = MathMax(RSub(@, R(1, 10)), R(1, 10))]
    /\ UNCHANGED <<textLayers, width, height, selectedId, interaction, nextId,
                   project, error, generate, download>>

handleFitToScreen ==
    /\ view' = [view EXCEPT !.isFitToScreen = TRUE]
    /\ UNCHANGED <<textLayers, width, height, selectedId, interaction, nextId,
                   project, error, generate, download>>

\* the space around the canvas in fit mode
FitPadding == 80

\* Math.max(0, viewportSize.width - padding) and the same of the height
AvailableViewport ==
    [width |-> MathMax(I(0), I(view.viewportSize.width - FitPadding)),
     height |-> MathMax(I(0), I(view.viewportSize.height - FitPadding))]

\* a var read above its assignment is undefined, which is NaN as a number
Hoisted == NaN

\* getEffectiveScale: in fit mode with a viewport it returns from its first
\* return statement, above the assignments of scaleX and scaleY
getEffectiveScale ==
    IF view.isFitToScreen /\ view.viewportSize.width > 0 /\ view.viewportSize.height > 0
    THEN LET scaleX == Hoisted
             scaleY == Hoisted
         IN  MathMin(MathMin(scaleX, scaleY), I(1))
    ELSE view.zoomLevel

\* const currentScale = getEffectiveScale()
currentScale == getEffectiveScale

----------------------------------------------------------------------------
(* Export: the text layout of handleDownload                               *)

\* WrapLoop where the line a rejected word starts lacks the separating space
RECURSIVE WrapLoop_NoSeparator(_, _, _, _, _)
WrapLoop_NoSeparator(words, n, line, lines, maxWidth) ==
    IF n > Len(words) THEN Append(lines, line)
    ELSE LET testLine == line \o words[n] \o <<" ">>
         IN  IF RLess(maxWidth, measureText(testLine)) /\ n > 1
             THEN WrapLoop_NoSeparator(words, n + 1, words[n], Append(lines, line), maxWidth)
             ELSE WrapLoop_NoSeparator(words, n + 1, testLine, lines, maxWidth)

\* the loop over words[n..] with the current line and the lines pushed so far
RECURSIVE WrapLoop(_, _, _, _, _)
WrapLoop(words, n, line, lines, maxWidth) ==
    IF n > Len(words) THEN Append(lines, line)
    ELSE LET testLine == line \o words[n] \o <<" ">>
         IN  IF RLess(maxWidth, measureText(testLine)) /\ n > 1
             THEN WrapLoop(words, n + 1, words[n] \o <<" ">>, Append(lines, line), maxWidth)
             ELSE WrapLoop(words, n + 1, testLine, lines, maxWidth)

\* the lines array handleDownload builds for a layer's text
WrapLines(text, maxWidth) == WrapLoop(SplitOnSpace(text), 1, <<>>, <<>>, maxWidth)

\* the strings handed to ctx.fillText: l.trim() of every line
DrawnLines(text, maxWidth) ==
    LET lines == WrapLines(text, maxWidth)
    IN  [i \in 1..Len(lines) |-> Trim(lines[i])]

\* a numeric field of a layer; undefined (a missing field) computes as NaN
Num(layer, f) == IF f \in DOMAIN layer THEN layer[f] ELSE NaN

\* LayerCalls where the lines are stacked by the font size, without the leading
LayerCalls_NoLeading(layer, w, h) ==
    LET x == RMul(RDiv(Num(layer, "x"), I(100)), I(w))
        y == RMul(RDiv(Num(layer, "y"), I(100)), I(h))
        maxWidth == RMul(RDiv(Num(layer, "boxWidth"), I(100)), I(w))
        lines == WrapLines(layer.text, maxWidth)
        lineHeight == Num(layer, "fontSize")
        totalHeight == RMul(I(Len(lines)), lineHeight)
        top == IF layer.verticalAlign = "center" THEN RSub(y, RDiv(totalHeight, I(2)))
               ELSE IF layer.verticalAlign = "bottom" THEN RSub(y, totalHeight)
               ELSE y
    IN  [i \in 1..Len(lines) |->
            [op |-> "fillText",
             layer |-> layer.id,
             text |-> Trim(lines[i]),
             x |-> x,
             y |-> RAdd(top, RMul(I(i - 1), lineHeight)),
             textAlign |-> IF "align" \in DOMAIN layer THEN layer.align ELSE "start"]]

\* the ctx.fillText calls of one layer on a canvas of w x h pixels
LayerCalls(layer, w, h) ==
    LET x == RMul(RDiv(Num(layer, "x"), I(100)), I(w))
        y == RMul(RDiv(Num(layer, "y"), I(100)), I(h))
        maxWidth == RMul(RDiv(Num(layer, "boxWidth"), I(100)), I(w))
        lines == WrapLines(layer.text, maxWidth)
        lineHeight == RMul(Num(layer, "fontSize"), R(13, 10))
        totalHeight == RMul(I(Len(lines)), lineHeight)
        top == IF layer.verticalAlign = "center" THEN RSub(y, RDiv(totalHeight, I(2)))
               ELSE IF layer.verticalAlign = "bottom" THEN RSub(y, totalHeight)
               ELSE y
    IN  [i \in 1..Len(lines) |->
            [op |-> "fillText",
             layer |-> layer.id,
             text |-> Trim(lines[i]),
             x |-> x,
             y |-> RAdd(top, RMul(I(i - 1), lineHeight)),
             textAlign |-> IF "align" \in DOMAIN layer THEN layer.align ELSE "start"]]

\* LayersCalls where the layers are drawn from the last to the first
RECURSIVE LayersCalls_Reversed(_, _, _, _)
LayersCalls_Reversed(layers, k, w, h) ==
    IF k > Len(layers) THEN <<>>
    ELSE LayersCalls_Reversed(layers, k + 1, w, h) \o LayerCalls(layers[k], w, h)

\* project.textLayers.forEach(layer => ...): the calls of layers[k..], in order
RECURSIVE LayersCalls(_, _, _, _)
LayersCalls(layers, k, w, h) ==
    IF k > Len(layers) THEN <<>>
    ELSE LayerCalls(layers[k], w, h) \o LayersCalls(layers, k + 1, w, h)

\* the project a handleDownload call closes over
Snapshot ==
    [width |-> width, height |-> height, background |-> project.background,
     assetType |-> project.assetType, textLayers |-> textLayers]

\* handleDownload ends: how, and with which file saved (link.click())
DownloadEnds(outcome, files) ==
    download' = [pc |-> "idle", outcome |-> outcome, files |-> files]

\* a click on Download, shown when there is content and nothing is generating,
\* up to the await of the background image; ctx is canvas.getContext('2d')
\* or, with no context to give, null
handleDownload(ctx) ==
    /\ hasContent
    /\ ~project.isGenerating
    /\ download.pc = "idle"
    /\ IF project.assetType \in {"ICON", "LOGO"}
       THEN IF ~Truthy(project.svgContent)
            THEN DownloadEnds("returned", <<>>)
            ELSE DownloadEnds("saved", <<[type |-> "svg", content |-> project.svgContent]>>)
       ELSE IF ~Truthy(project.background) THEN DownloadEnds("returned", <<>>)
       ELSE IF ctx = "null" THEN DownloadEnds("returned", <<>>)
       ELSE download' = [pc |-> "imageLoad", outcome |-> "none", calls |-> <<>>,
                         project |-> Snapshot]
    /\ UNCHANGED <<textLayers, width, height, selectedId, interaction, nextId,
                   project, error, generate, view>>

\* the click on Download with whatever context the browser gives
downloadClicked == \E ctx \in {"null", "CanvasRenderingContext2D"} : handleDownload(ctx)

\* img.onload: the image and then every layer are drawn, and the canvas is saved
imageLoaded ==
    /\ download.pc = "imageLoad"
    /\ LET p == download.project
           calls == <<[op |-> "drawImage", image |-> p.background,
                       w |-> p.width, h |-> p.height]>>
                    \o LayersCalls(p.textLayers, 1, p.width, p.height)
       IN  DownloadEnds("saved", <<[type |-> "png", calls |-> calls]>>)
    /\ UNCHANGED <<textLayers, width, height, selectedId, interaction, nextId,
                   project, error, generate, view>>

\* imageFailed where the catch block logs the failure and sets no error
imageFailed_Silent ==
    /\ download.pc = "imageLoad"
    /\ DownloadEnds("failed", <<>>)
    /\ UNCHANGED <<textLayers, width, height, selectedId, interaction, nextId,
                   project, error, generate, view>>

\* img.onerror: the promise rejects and the catch block reports it
imageFailed ==
    /\ download.pc = "imageLoad"
    /\ DownloadEnds("failed", <<>>)
    /\ error' = "Failed to download image."
    /\ UNCHANGED <<textLayers, width, height, selectedId, interaction, nextId,
                   project, generate, view>>

----------------------------------------------------------------------------
(* The text geometry of the preview (the layer element of the canvas) and   *)
(* of the export, for one layer on a canvas of w x h pixels                 *)

PaddingX == 8       \* px-2: 0.5rem on each side
PaddingY == 4       \* py-1: 0.25rem above and below

\* the width of the layer element: width: `${layer.boxWidth || 80}%`
PreviewBoxWidth(layer, w) ==
    RMul(RDiv(OrElse(Num(layer, "boxWidth"), I(80)), I(100)), I(w))

\* the width the element leaves its text: the box without its horizontal padding
PreviewMaxWidth(layer, w) == RSub(PreviewBoxWidth(layer, w), I(2 * PaddingX))

\* the width handleDownload wraps at
ExportMaxWidth(layer, w) == RMul(RDiv(Num(layer, "boxWidth"), I(100)), I(w))

\* lineHeight: 1.3 on an element of fontSize: `${layer.fontSize}px`
PreviewLineHeight(layer) == RMul(R(13, 10), Num(layer, "fontSize"))

\* const lineHeight = layer.fontSize * 1.3
ExportLineHeight(layer) == RMul(Num(layer, "fontSize"), R(13, 10))

\* the fraction of the element's size getTransform translates it by
TranslateX(alignX) == IF alignX = "left" THEN I(0) ELSE IF alignX = "right" THEN I(-1) ELSE R(-1, 2)
TranslateY(alignY) == IF alignY = "top" THEN I(0) ELSE IF alignY = "bottom" THEN I(-1) ELSE R(-1, 2)

\* the x the element's text is aligned at: the start, the middle or the end of
\* the padded box, for textAlign left, center or right
PreviewTextX(layer, w) ==
    LET box == PreviewBoxWidth(layer, w)
        left == RAdd(RMul(RDiv(Num(layer, "x"), I(100)), I(w)),
                     RMul(TranslateX(layer.align), box))
    IN  IF layer.align = "left" THEN RAdd(left, I(PaddingX))
        ELSE IF layer.align = "right" THEN RSub(RAdd(left, box), I(PaddingX))
        ELSE RAdd(left, RDiv(box, I(2)))

\* the top of the first of the element's n lines
PreviewFirstLineTop(layer, h, n) ==
    LET box == RAdd(RMul(I(n), PreviewLineHeight(layer)), I(2 * PaddingY))
        top == RAdd(RMul(RDiv(Num(layer, "y"), I(100)), I(h)),
                    RMul(TranslateY(IF "verticalAlign" \in DOMAIN layer
                                    THEN layer.verticalAlign ELSE "center"), box))
    IN  RAdd(top, I(PaddingY))

\* the x and the y handleDownload draws the layer's first line at
ExportTextX(layer, w, h) == LayerCalls(layer, w, h)[1].x
ExportFirstLineTop(layer, w, h) == LayerCalls(layer, w, h)[1].y

----------------------------------------------------------------------------
(* The studio: a brief, a generated design and its export                  *)

layoutReturnedStep ==
    \E i \in 1..Len(generate), response \in LayoutResponses(MaxLayers) :
        layoutReturned(i, response)

NextStudio ==
    \/ setBrief
    \/ selectAssetType
    \/ handleGenerate
    \/ svgIconReturned
    \/ backgroundReturned
    \/ layoutReturnedStep
    \/ downloadClicked
    \/ imageLoaded
    \/ imageFailed

SpecStudio == Init /\ [][NextStudio]_vars

----------------------------------------------------------------------------
(* The preview scale under zooming, viewport changes and canvas sizes      *)

NextView ==
    \/ setViewportSize
    \/ handleZoomIn
    \/ handleZoomOut
    \/ handleFitToScreen
    \/ selectAssetType
    \/ handleDimensionChange

SpecView == Init /\ [][NextView]_vars

----------------------------------------------------------------------------
(* The project under generation, layout remixes and resets, with the       *)
(* remote calls returning in any order                                     *)

\* the ways a layout call ends here: it throws, its text does not parse, or
\* it parses to no layer or to one layer of the responses
FlowResponses ==
    {r \in LayoutResponses(1) :
        r.kind = "parses" =>
            /\ "textLayers" \in DOMAIN r.value
            /\ \A k \in 1..Len(r.value.textLayers) :
                  /\ "boxWidth" \in DOMAIN r.value.textLayers[k]
                  /\ r.value.textLayers[k].boxWidth = I(50)}

layoutReturnedFlowStep ==
    \E i \in 1..Len(generate), response \in FlowResponses : layoutReturned(i, response)

regenerateLayoutReturnedStep ==
    \E i \in 1..Len(generate), response \in FlowResponses :
        regenerateLayoutReturned(i, response)

NextFlows ==
    \/ setBrief
    \/ selectAssetType
    \/ handleDimensionChange
    \/ handleGenerate
    \/ svgIconReturned
    \/ backgroundReturned
    \/ layoutReturnedFlowStep
    \/ handleRegenerateLayout
    \/ regenerateLayoutReturnedStep
    \/ handleReset

SpecFlows == Init /\ [][NextFlows]_vars

----------------------------------------------------------------------------
(* The layer collection under every operation that touches it: the calls   *)
(* of updateTextLayer and removeTextLayer for any id, the sidebar, and     *)
(* generation, remix and reset                                             *)

\* the ids a caller can hold: every id handed out so far or still to come
CallerIds == 1..MaxId

\* the field updates a caller hands to updateTextLayer
UpdateInputs == {[x |-> I(10), y |-> I(90)], [boxWidth |-> I(20)]}

\* onUpdateLayer(id, updates), for any id
updateLayerCalled ==
    \E id \in CallerIds, updates \in UpdateInputs :
        /\ textLayers' = updateTextLayer(id, updates)
        /\ UNCHANGED <<width, height, selectedId, interaction, nextId, appVars>>

\* onRemoveLayer(id), for any id
removeLayerCalled ==
    \E id \in CallerIds :
        /\ textLayers' = removeTextLayer(id)
        /\ UNCHANGED <<width, height, selectedId, interaction, nextId, appVars>>

NextLayers ==
    \/ addTextLayer
    \/ updateLayerCalled
    \/ removeLayerCalled
    \/ SidebarEdit
    \/ setBrief
    \/ handleGenerate
    \/ backgroundReturned
    \/ layoutReturnedFlowStep
    \/ handleRegenerateLayout
    \/ regenerateLayoutReturnedStep
    \/ handleReset

SpecLayers == Init /\ [][NextLayers]_vars

----------------------------------------------------------------------------
(* The busy flags of the project, with every remote call returning at last *)

\* the ways a layout call ends here: those of FlowResponses, and a response
\* that parses to an object without textLayers
BusyResponses ==
    FlowResponses \cup {r \in LayoutResponses(0) :
                            r.kind = "parses" /\ "textLayers" \notin DOMAIN r.value}

layoutReturnedBusyStep ==
    \E i \in 1..Len(generate), response \in BusyResponses : layoutReturned(i, response)

regenerateLayoutReturnedBusyStep ==
    \E i \in 1..Len(generate), response \in BusyResponses :
        regenerateLayoutReturned(i, response)

NextBusy ==
    \/ setBrief
    \/ selectAssetType
    \/ handleGenerate
    \/ svgIconReturned
    \/ backgroundReturned
    \/ layoutReturnedBusyStep
    \/ handleRegenerateLayout
    \/ regenerateLayoutReturnedBusyStep
    \/ handleReset

\* every remote call that was issued returns or throws at last
SpecBusy ==
    /\ Init
    /\ [][NextBusy]_vars
    /\ WF_vars(svgIconReturned)
    /\ WF_vars(backgroundReturned)
    /\ WF_vars(layoutReturnedBusyStep)
    /\ WF_vars(regenerateLayoutReturnedBusyStep)

----------------------------------------------------------------------------
(* The zoom toolbar next to generation and New: the toolbar is always      *)
(* there, New once there is content                                        *)

NextZoom ==
    \/ handleZoomIn
    \/ handleZoomOut
    \/ handleFitToScreen
    \/ setBrief
    \/ handleGenerate
    \/ backgroundReturned
    \/ layoutReturnedFlowStep
    \/ handleReset

SpecZoom == Init /\ [][NextZoom]_vars

----------------------------------------------------------------------------
(* A layer dragged on the canvas while the project is reset or its layout  *)
(* is remixed                                                              *)

\* a generated poster with the one layer of a fallback suggestion
InitDrag ==
    /\ width = 1080
    /\ height = 1350
    /\ textLayers = <<StoredLayer(FallbackSuggestion(<<"h", "i">>).textLayers[1], 1)>>
    /\ selectedId = NullId
    /\ interaction = Idle
    /\ nextId = 2
    /\ \E imageBase64 \in Images :
         project = [InitialProject EXCEPT !.brief = <<"h", "i">>, !.background = imageBase64]
    /\ error = NoError
    /\ generate = NoGenerate
    /\ download = NoDownload
    /\ view = InitialView

\* mousedown on a layer's body; the loading overlays cover the canvas while
\* the project is generating or analyzing
PointerDownLayerUncovered ==
    /\ ~project.isGenerating
    /\ ~project.isAnalyzing
    /\ PointerDownLayerStep

\* mousedown on a resize handle of the selected layer, under the same overlays
PointerDownHandleUncovered ==
    /\ ~project.isGenerating
    /\ ~project.isAnalyzing
    /\ PointerDownHandleStep

NextDrag ==
    \/ PointerDownLayerUncovered
    \/ PointerDownHandleUncovered
    \/ PointerMoveStep
    \/ PointerUp
    \/ addTextLayer
    \/ deleteLayer
    \/ handleRegenerateLayout
    \/ regenerateLayoutReturnedStep
    \/ handleReset

SpecDrag == InitDrag /\ [][NextDrag]_vars

----------------------------------------------------------------------------
(* The export of one layer, for the texts and widths a layer can be given  *)

\* the texts typed into a layer: letters and spaces, up to MaxText characters
WrapTexts == UNION {[1..k -> {"a", " "}] : k \in 0..MaxText}

\* what the layer's Width field stores, in percent: parseInt of what was typed,
\* which is NaN for an emptied field
WrapBoxWidths == {I(k) : k \in 0..MaxText} \cup {NaN}

\* a generated poster whose layer was given a text and a width in the sidebar
InitWrap ==
    /\ width = 1080
    /\ height = 1350
    /\ \E text \in WrapTexts, boxWidth \in WrapBoxWidths :
         textLayers = <<[StoredLayer(FallbackSuggestion(<<"h", "i">>).textLayers[1], 1)
                           EXCEPT !.text = text, !.boxWidth = boxWidth]>>
    /\ selectedId = NullId
    /\ interaction = Idle
    /\ nextId = 2
    /\ \E imageBase64 \in Images :
         project = [InitialProject EXCEPT !.brief = <<"h", "i">>, !.background = imageBase64]
    /\ error = NoError
    /\ generate = NoGenerate
    /\ download = NoDownload
    /\ view = InitialView

NextWrap ==
    \/ downloadClicked
    \/ imageLoaded
    \/ imageFailed

SpecWrap == InitWrap /\ [][NextWrap]_vars

----------------------------------------------------------------------------
(* Vocabulary of the properties: the contract's own formulas, written      *)
(* independently of the handlers above                                     *)

\* lo <= v <= hi for a finite number v
Within(v, lo, hi) == IsFinite(v) /\ RLeq(I(lo), v) /\ RLeq(v, I(hi))

\* clamp(v, lo, hi) of the contract
Clamped(v, lo, hi) ==
    IF RLess(v, I(lo)) THEN I(lo) ELSE IF RLess(I(hi), v) THEN I(hi) ELSE v

\* screenDeltaToPercent(deltaScreenPx, dimension, s) of the contract
screenDeltaToPercent(deltaScreenPx, dimension, s) ==
    RMul(RDiv(RDiv(I(deltaScreenPx), s), I(dimension)), I(100))

\* the layer with the given id in a layer sequence
LayerIn(layers, id) == layers[CHOOSE i \in 1..Len(layers) : layers[i].id = id]

\* the layer an active interaction is about is still in the collection
Engaged(type) ==
    /\ interaction.type = type
    /\ interaction.layerId \in LayerIds

\* the horizontal screen deltas two pointer positions can be apart
ScreenDeltas == {a.clientX - b.clientX : a, b \in FinePoints}

\* zoom levels between the zoom controls' limits of 10% and 300%
ZoomScales == {R(1, 10), R(1, 2), R(3, 2), I(3)}

\* the words of a text: its maximal runs of characters that are not whitespace
RECURSIVE WordsOf(_)
WordsOf(text) ==
    IF text = <<>> THEN <<>>
    ELSE IF Head(text) \in WhiteSpace THEN WordsOf(Tail(text))
    ELSE LET k == CHOOSE j \in 1..Len(text) :
                     /\ \A m \in 1..j : text[m] \notin WhiteSpace
                     /\ j = Len(text) \/ text[j + 1] \in WhiteSpace
         IN  <<SubSeq(text, 1, k)>> \o WordsOf(SubSeq(text, k + 1, Len(text)))

\* strings joined with single spaces
RECURSIVE JoinWithSpaces(_)
JoinWithSpaces(strings) ==
    IF strings = <<>> THEN <<>>
    ELSE IF Len(strings) = 1 THEN strings[1]
    ELSE strings[1] \o <<" ">> \o JoinWithSpaces(Tail(strings))

\* the contract's greedy wrap of words[n..]: the candidate holds the words of
\* the open line, measured without a trailing space
RECURSIVE GreedyLoop(_, _, _, _, _)
GreedyLoop(words, n, candidate, lines, maxWidth) ==
    IF n > Len(words) THEN Append(lines, JoinWithSpaces(candidate))
    ELSE LET withWord == Append(candidate, words[n])
         IN  IF RLess(maxWidth, measureText(JoinWithSpaces(withWord))) /\ candidate # <<>>
             THEN GreedyLoop(words, n + 1, <<words[n]>>,
                             Append(lines, JoinWithSpaces(candidate)), maxWidth)
             ELSE GreedyLoop(words, n + 1, withWord, lines, maxWidth)

\* the contract's line wrapping of a text
GreedyWrap(text, maxWidth) == GreedyLoop(WordsOf(text), 1, <<>>, <<>>, maxWidth)

\* the words of a sequence of lines, in order
RECURSIVE WordsOfLines(_)
WordsOfLines(lines) ==
    IF lines = <<>> THEN <<>> ELSE WordsOf(Head(lines)) \o WordsOfLines(Tail(lines))

\* the texts of the fillText calls made for the layer with the given id
TextsOf(calls, id) ==
    LET own == SelectSeq(calls, LAMBDA c : c.op = "fillText" /\ c.layer = id)
    IN  [i \in 1..Len(own) |-> own[i].text]

\* the fillText calls made for the layer with the given id
CallsOf(calls, id) == SelectSeq(calls, LAMBDA c : c.op = "fillText" /\ c.layer = id)

\* the position of the layer with the given id in a collection
PositionOf(layers, id) == CHOOSE k \in 1..Len(layers) : layers[k].id = id

\* the fields a layout response must give each of its layers
RequiredFields == {"text", "x", "y", "fontSize", "align"}

\* the layout responses that are malformed: text that is empty or does not
\* parse, a value without layers, or a layer without a required field
MalformedResponses ==
    {r \in LayoutResponses(MaxLayers) :
        \/ r.kind \in {"empty", "unparseable"}
        \/ /\ r.kind = "parses"
           /\ \/ "textLayers" \notin DOMAIN r.value
              \/ r.value.textLayers = <<>>
              \/ \E k \in 1..Len(r.value.textLayers) :
                    ~(RequiredFields \subseteq DOMAIN r.value.textLayers[k])}

\* the default layer of the contract for a brief, as stored with the given id
DefaultLayer(brief, id) ==
    [id |-> id, text |-> ToUpperCase(brief), x |-> I(50), y |-> I(50),
     align |-> "center", verticalAlign |-> "center", boxWidth |-> I(80),
     fontSizePct |-> I(8), fontSize |-> calculatePixelFontSize(I(width), I(height), I(8))]

\* a step in which a layout call of handleGenerate or of handleRegenerateLayout returns
LayoutReturns ==
    \E i \in 1..Len(generate), response \in FlowResponses :
        layoutReturned(i, response) \/ regenerateLayoutReturned(i, response)

\* generation has begun and the project was not reset since
GenerationBegun == project.isGenerating \/ project.isAnalyzing \/ hasContent

\* the ids of a collection, in its order
Ids(layers) == [k \in 1..Len(layers) |-> layers[k].id]

\* the ids that are in a collection
IdSet(layers) == {layers[k].id : k \in 1..Len(layers)}

\* a step in which an export draws and saves its canvas
ExportSaves == download.pc = "imageLoad" /\ download'.outcome = "saved"

\* the calls on the canvas an export has just saved
SavedCalls == download'.files[1].calls

\* the vertical screen deltas two pointer positions can be apart
VerticalDeltas == {a.clientY - b.clientY : a, b \in FinePoints}

\* the scales a drag and the drag back are made at
RoundTripScales == {R(1, 2), I(1), R(3, 2)}

\* the screen distance that makes at scale s2 the percent that d makes at s1
EquivalentScreenDelta(d, s1, s2) == RDiv(RMul(I(d), s2), s1)

\* the anchor coordinate after a drag of d screen pixels at scale s1 and a drag
\* back by the equivalent distance at scale s2, along an axis of dim canvas pixels
DragAndBack(start, d, s1, s2, dim) ==
    LET there == MovedAnchor(start, DeltaPct(I(d), RMul(I(dim), s1), I(dim)))
    IN  MovedAnchor(there, DeltaPct(RNeg(EquivalentScreenDelta(d, s1, s2)),
                                    RMul(I(dim), s2), I(dim)))

----------------------------------------------------------------------------
(* C1: after any sequence of layer-creating and layer-updating operations, *)
(* every text layer has boxWidth in [5,100] and x and y in [-20,120].      *)
C1_LayersWithinRanges ==
    \A i \in 1..Len(textLayers) :
        /\ Within(textLayers[i].boxWidth, 5, 100)
        /\ Within(textLayers[i].x, -20, 120)
        /\ Within(textLayers[i].y, -20, 120)

(* C2: while Moving layer L with the baseline anchor (x0,y0) captured at   *)
(* pointer-down, every pointer-move sets L.x = clamp(x0 + deltaXPct, -20,  *)
(* 120) and L.y = clamp(y0 + deltaYPct, -20, 120), the deltas being the    *)
(* pointer displacement since pointer-down in percent of the canvas width  *)
(* and height; the baseline is the layer's anchor at pointer-down.         *)
C2_MoveSetsClampedAnchor ==
    [][ /\ (Engaged("moving") /\ interaction' = interaction) =>
            \A e \in FinePoints, scale \in Scales :
            handleMouseMove(e, BoundingClientRect(scale))
            => LET L == LayerIn(textLayers', interaction.layerId)
                   deltaXPct == screenDeltaToPercent(e.clientX - interaction.startX, width, scale)
                   deltaYPct == screenDeltaToPercent(e.clientY - interaction.startY, height, scale)
               IN  /\ L.x = Clamped(RAdd(interaction.initial.x, deltaXPct), -20, 120)
                   /\ L.y = Clamped(RAdd(interaction.initial.y, deltaYPct), -20, 120)
        /\ (interaction = Idle /\ interaction' # Idle /\ interaction'.type = "moving")
            => /\ interaction'.initial.x = Find(interaction'.layerId).x
               /\ interaction'.initial.y = Find(interaction'.layerId).y
      ]_vars

\* a move has acted without clamping: the layer is 35% right of and 70% below its baseline
C2_Witness ==
    /\ Engaged("moving")
    /\ Find(interaction.layerId).x = RAdd(interaction.initial.x, I(35))
    /\ Find(interaction.layerId).y = RAdd(interaction.initial.y, I(70))
    /\ Within(Find(interaction.layerId).x, -19, 119)
    /\ Within(Find(interaction.layerId).y, -19, 119)

(* C3: while resizing layer L with the baseline width w0 captured at       *)
(* pointer-down, every pointer-move with horizontal percent delta d sets   *)
(* L.boxWidth = clamp(w, 5, 100), where w = w0 + d for the right handle on *)
(* a left-aligned layer, w0 - d for the left handle on a right-aligned     *)
(* layer, and w0 + 2d (right handle) or w0 - 2d (left handle) on a center- *)
(* aligned layer; for align = right, dragging the left handle by d = 5     *)
(* decreases boxWidth by 5.                                                *)
C3_ResizeByHandleAndAlign ==
    [][ /\ (interaction # Idle /\ interaction' = interaction) =>
            \A e \in FinePoints, scale \in Scales :
            LET rect == BoundingClientRect(scale)
                d == screenDeltaToPercent(e.clientX - interaction.startX, width, scale)
                w0 == interaction.initial.boxWidth
                align == Find(interaction.layerId).align
                L == LayerIn(textLayers', interaction.layerId)
                Moved(ev, r) == interaction' = interaction /\ handleMouseMove(ev, r)
            IN  /\ (Engaged("resizing_right") /\ align = "left" /\ Moved(e, rect))
                    => L.boxWidth = Clamped(RAdd(w0, d), 5, 100)
                /\ (Engaged("resizing_left") /\ align = "right" /\ Moved(e, rect))
                    => L.boxWidth = Clamped(RSub(w0, d), 5, 100)
                /\ (Engaged("resizing_right") /\ align = "center" /\ Moved(e, rect))
                    => L.boxWidth = Clamped(RAdd(w0, RMul(I(2), d)), 5, 100)
                /\ (Engaged("resizing_left") /\ align = "center" /\ Moved(e, rect))
                    => L.boxWidth = Clamped(RSub(w0, RMul(I(2), d)), 5, 100)
        /\ \A i \in 1..Len(textLayers) :
            LET w0 == OrElse(textLayers[i].boxWidth, I(80))
            IN  Within(RSub(w0, I(5)), 5, 100)
                => ResizedLeft("right", w0, I(5)) = RSub(w0, I(5))
      ]_vars

\* a resize has acted: the left handle of a right-aligned layer has changed its width
C3_Witness ==
    /\ Engaged("resizing_left")
    /\ Find(interaction.layerId).align = "right"
    /\ Find(interaction.layerId).boxWidth = RSub(interaction.initial.boxWidth, I(70))

(* C4: for every center-aligned layer and every baseline boxWidth,         *)
(* dragging the right handle by the screen delta d and dragging the left   *)
(* handle by -d from that baseline give the same boxWidth.                 *)
C4_CenterHandlesMirror ==
    \A i \in 1..Len(textLayers), d \in ScreenDeltas, scale \in Scales :
        textLayers[i].align = "center"
        => LET w0 == OrElse(textLayers[i].boxWidth, I(80))
               rect == BoundingClientRect(scale)
           IN  ResizedRight("center", w0, DeltaPct(I(d), rect.width, I(width)))
                 = ResizedLeft("center", w0, DeltaPct(I(-d), rect.width, I(width)))

\* a center-aligned layer whose width a handle drag has changed to a value inside the range
C4_Witness ==
    /\ Engaged("resizing_right")
    /\ Find(interaction.layerId).align = "center"
    /\ Find(interaction.layerId).boxWidth # interaction.initial.boxWidth
    /\ Within(Find(interaction.layerId).boxWidth, 6, 99)

(* C5: from any interaction state (Moving, ResizingLeft, ResizingRight), a *)
(* pointer-up or a pointer-leave of the surface leads to Idle and changes  *)
(* no field of any layer: whenever an interaction ends, the layers keep    *)
(* the values the last pointer-move wrote.                                 *)
C5_ReleaseCommitsNothing ==
    [][ /\ (PointerUp \/ PointerLeave) => (interaction' = Idle /\ textLayers' = textLayers)
        /\ (interaction # Idle /\ interaction' = Idle) => textLayers' = textLayers
      ]_vars

\* a resize has narrowed a layer from 80 to 10 and the interaction has
\* ended: only a handle drag gives that width, only a release gives Idle
C5_Witness ==
    /\ interaction = Idle
    /\ \E i \in 1..Len(textLayers) : textLayers[i].boxWidth = I(10)

(* C6: a pointer-move received while the interaction state is Idle is      *)
(* ignored: no layer field, the selection and the interaction state are    *)
(* all unchanged.                                                          *)
C6_IdleMoveIgnored ==
    [][ \A e \in Points, scale \in Scales :
            (interaction = Idle /\ handleMouseMove(e, BoundingClientRect(scale)))
            => UNCHANGED <<textLayers, selectedId, interaction>>
      ]_vars

\* Idle with a selected layer on the canvas, where every pointer-move is such a stray event
C6_Witness ==
    /\ interaction = Idle
    /\ selectedId \in LayerIds
    /\ Len(textLayers) = MaxLayers

(* C7: at most one layer is mid-interaction and a new interaction never    *)
(* starts while one is active: while the state is Moving or Resizing for a *)
(* layer, no step (a pointer-down on a layer body or on a resize handle    *)
(* included) replaces the interaction's type, layer or baseline; the       *)
(* interaction can only end, and a new one begins only from Idle.          *)
C7_NoInteractionReplaced ==
    [][ /\ interaction # Idle => (interaction' = interaction \/ interaction' = Idle)
        /\ (interaction' # Idle /\ interaction' # interaction) => interaction = Idle
      ]_vars

\* a pointer-down arrived during an interaction on a layer beside another
\* one: it reached the overlay, which cleared the selection and left the
\* interaction as it was
C7_Witness ==
    /\ interaction # Idle
    /\ interaction.layerId \in LayerIds
    /\ Len(textLayers) = MaxLayers
    /\ selectedId = NullId

(* C8: a pointer-down on a layer body from Idle both selects that layer    *)
(* and enters Moving for it, and the selection is then cleared only by a   *)
(* pointer-down that reaches the canvas surface (handleBackgroundClick):   *)
(* pointer-move, pointer-up, pointer-leave and a pointer-down on a resize  *)
(* handle never change the selected layer.                                 *)
C8_SelectionPersists ==
    [][ /\ (interaction = Idle /\ PointerDownLayerStep)
            => /\ selectedId' \in LayerIds
               /\ interaction'.type = "moving"
               /\ interaction'.layerId = selectedId'
        /\ (selectedId # NullId /\ selectedId' = NullId) => handleBackgroundClick
        /\ selectedId' # selectedId
            => /\ PointerDownBackground \/ PointerDownLayerStep
               /\ ~(PointerMoveStep \/ PointerUp \/ PointerLeave \/ PointerDownHandleStep)
      ]_vars

\* a layer was selected by a pointer-down on its body, dragged to the edge
\* of the range and released, and is still the selected layer
C8_Witness ==
    /\ interaction = Idle
    /\ selectedId \in LayerIds
    /\ Find(selectedId).x = I(120)

(* C9: a resize interaction starts only on the currently selected layer    *)
(* and only from a free-edge handle: ResizingRight starts only when the    *)
(* layer's align is left or center, ResizingLeft only when it is right or  *)
(* center.                                                                 *)
C9_ResizeStartsOnFreeEdge ==
    [][ (interaction' # interaction /\ interaction' # Idle /\ interaction'.type # "moving")
        => /\ interaction'.layerId \in LayerIds
           /\ selectedId = interaction'.layerId
           /\ interaction'.type = "resizing_right"
                => Find(interaction'.layerId).align \in {"left", "center"}
           /\ interaction'.type = "resizing_left"
                => Find(interaction'.layerId).align \in {"right", "center"}
      ]_vars

\* a resize has just started from the left handle of the selected, right-aligned layer
C9_Witness ==
    /\ Engaged("resizing_left")
    /\ selectedId = interaction.layerId
    /\ Find(interaction.layerId).align = "right"
    /\ Find(interaction.layerId).boxWidth = interaction.initial.boxWidth

(* C10: percent deltas are scale-independent: for every screen delta N and *)
(* canvas dimension, the percent delta computed at scale 0.5 is exactly    *)
(* twice the one computed for the same N at scale 1.0, and deltaPct =      *)
(* (N / s) / dimension * 100 for every scale s > 0.                        *)
C10_ScaleIndependentDelta ==
    \A N \in ScreenDeltas, dim \in {width, height} :
        /\ DeltaPct(I(N), RMul(I(dim), R(1, 2)), I(dim))
             = RMul(I(2), DeltaPct(I(N), RMul(I(dim), I(1)), I(dim)))
        /\ \A s \in ZoomScales :
             DeltaPct(I(N), RMul(I(dim), s), I(dim)) = screenDeltaToPercent(N, dim, s)

\* a drag of 378 screen pixels at scale 0.5 has moved a layer by 70%, twice
\* the 35% the same drag gives at scale 1.0
C10_Witness ==
    /\ Engaged("moving")
    /\ interaction.startX = FineStep.x
    /\ interaction.initial.x = I(-20)
    /\ Find(interaction.layerId).x = I(50)

(* C11, as stated: for all zoom scales s1, s2 > 0 and every starting       *)
(* anchor, a drag of d screen pixels at s1 followed by a drag back by the  *)
(* screen distance that makes the same percent at s2 returns the layer's x *)
(* and y to their original percent values.                                 *)
C11_DragBackRestores ==
    interaction = Idle =>
        \A i \in 1..Len(textLayers), s1 \in RoundTripScales, s2 \in RoundTripScales :
            /\ \A d \in ScreenDeltas : DragAndBack(textLayers[i].x, d, s1, s2, width) = textLayers[i].x
            /\ \A d \in VerticalDeltas : DragAndBack(textLayers[i].y, d, s1, s2, height) = textLayers[i].y

(* C11, amended: the drag back restores x and y whenever the first drag    *)
(* leaves the anchor inside the clamp range [-20,120], i.e. start + delta  *)
(* percent lies in it; a drag the clamp cut short is not undone by the     *)
(* equivalent drag back.                                                   *)
C11_UnclampedDragBackRestores ==
    interaction = Idle =>
        \A i \in 1..Len(textLayers), s1 \in RoundTripScales, s2 \in RoundTripScales :
            /\ \A d \in ScreenDeltas :
                 Within(RAdd(textLayers[i].x, screenDeltaToPercent(d, width, s1)), -20, 120)
                 => DragAndBack(textLayers[i].x, d, s1, s2, width) = textLayers[i].x
            /\ \A d \in VerticalDeltas :
                 Within(RAdd(textLayers[i].y, screenDeltaToPercent(d, height, s1)), -20, 120)
                 => DragAndBack(textLayers[i].y, d, s1, s2, height) = textLayers[i].y

\* a layer that a drag had brought to x = 85 is being dragged back by 756
\* screen pixels at scale 1.0: the 70% that 378 pixels make at scale 0.5
C11_Witness ==
    /\ Engaged("moving")
    /\ interaction.startX = 2 * FineStep.x
    /\ interaction.initial.x = I(85)
    /\ Find(interaction.layerId).x = I(15)

(* C12, as stated: with a measurement of 10px per character on a 1080px    *)
(* wide canvas, the export of "HELLO WORLD FOO" at boxWidth 50 (maxWidth   *)
(* 540px) draws the single line "HELLO WORLD FOO", and at boxWidth 10      *)
(* (maxWidth 108px) exactly the three lines "HELLO", "WORLD", "FOO".       *)
C12_HelloWorldFooThreeLines ==
    [][ ExportSaves =>
          \A k \in 1..Len(download.project.textLayers) :
            LET layer == download.project.textLayers[k]
                drawn == TextsOf(SavedCalls, layer.id)
            IN  (layer.text = HelloWorldFoo /\ download.project.width = 1080)
                => /\ layer.boxWidth = I(50) => drawn = <<HelloWorldFoo>>
                   /\ layer.boxWidth = I(10)
                        => drawn = <<SubSeq(HelloWorldFoo, 1, 5), SubSeq(HelloWorldFoo, 7, 11),
                                     SubSeq(HelloWorldFoo, 13, 15)>>
      ]_vars

(* C12, amended: at boxWidth 50 (540px) the export draws the single line   *)
(* "HELLO WORLD FOO"; at boxWidth 10 (108px) it draws the two lines        *)
(* "HELLO" and "WORLD FOO", since "WORLD FOO" measures 90px (100px with    *)
(* the trailing space the export measures), which fits 108px.              *)
C12_HelloWorldFooTwoLines ==
    [][ ExportSaves =>
          \A k \in 1..Len(download.project.textLayers) :
            LET layer == download.project.textLayers[k]
                drawn == TextsOf(SavedCalls, layer.id)
            IN  (layer.text = HelloWorldFoo /\ download.project.width = 1080)
                => /\ layer.boxWidth = I(50) => drawn = <<HelloWorldFoo>>
                   /\ layer.boxWidth = I(10)
                        => drawn = <<SubSeq(HelloWorldFoo, 1, 5), SubSeq(HelloWorldFoo, 7, 15)>>
      ]_vars

\* an export has drawn "WORLD FOO" as one line: the text at boxWidth 10
C12_Witness ==
    /\ download.outcome = "saved"
    /\ \E f \in 1..Len(download.files) :
        /\ download.files[f].type = "png"
        /\ \E c \in 1..Len(download.files[f].calls) :
            /\ download.files[f].calls[c].op = "fillText"
            /\ download.files[f].calls[c].text = SubSeq(HelloWorldFoo, 7, 15)

(* C13: for every text and maxWidth over bounded sets, the export's line   *)
(* wrapping equals the reference greedy wrap: the text is split on         *)
(* whitespace into words, a word starts a new line exactly when the        *)
(* candidate line including that word (trailing space not counted)         *)
(* measures more than maxWidth and the candidate already holds a word, and *)
(* the remaining candidate is flushed as the last line, so empty input     *)
(* yields exactly one empty line.                                          *)
C13_WrapIsGreedyWrap ==
    [][ ExportSaves =>
          \A k \in 1..Len(download.project.textLayers) :
            LET layer == download.project.textLayers[k]
            IN  TextsOf(SavedCalls, layer.id)
                  = GreedyWrap(layer.text, ExportMaxWidth(layer, download.project.width))
      ]_vars

(* C14: line wrapping is idempotent: for every text and maxWidth, wrapping *)
(* the text formed by rejoining the trimmed output lines with single       *)
(* spaces, with the same maxWidth, yields the same sequence of lines.      *)
C14_WrapIsIdempotent ==
    [][ ExportSaves =>
          \A k \in 1..Len(download.project.textLayers) :
            LET layer == download.project.textLayers[k]
                lines == TextsOf(SavedCalls, layer.id)
            IN  DrawnLines(JoinWithSpaces(lines), ExportMaxWidth(layer, download.project.width))
                  = lines
      ]_vars

(* C15: for a layer with anchor pixel (X, Y) whose text wraps to n lines,  *)
(* the export draws line i (counted from 0) with its top at                *)
(* T + i * lineHeight, where lineHeight = 1.3 * fontSize and T is Y for    *)
(* verticalAlign top, Y - n * lineHeight / 2 for center and                *)
(* Y - n * lineHeight for bottom, and draws every line at the same X.      *)
C15_LinesStackFromBlockTop ==
    [][ ExportSaves =>
          \A k \in 1..Len(download.project.textLayers) :
            LET layer == download.project.textLayers[k]
                own == CallsOf(SavedCalls, layer.id)
                n == Len(own)
                X == RMul(RDiv(layer.x, I(100)), I(download.project.width))
                Y == RMul(RDiv(layer.y, I(100)), I(download.project.height))
                lineHeight == RMul(R(13, 10), layer.fontSize)
                T == CASE layer.verticalAlign = "top" -> Y
                       [] layer.verticalAlign = "center"
                            -> RSub(Y, RDiv(RMul(I(n), lineHeight), I(2)))
                       [] layer.verticalAlign = "bottom" -> RSub(Y, RMul(I(n), lineHeight))
            IN  {"x", "y", "fontSize"} \subseteq DOMAIN layer
                => /\ n >= 1
                   /\ \A i \in 0..(n - 1) :
                        /\ own[i + 1].y = RAdd(T, RMul(I(i), lineHeight))
                        /\ own[i + 1].x = X
      ]_vars

\* an export has drawn the second line of a top-aligned layer one line height
\* (1.3 * 54px) below its anchor at y = 10% of 1350px
C15_Witness ==
    /\ download.outcome = "saved"
    /\ \E f \in 1..Len(download.files) :
        /\ download.files[f].type = "png"
        /\ \E c \in 1..Len(download.files[f].calls) :
            /\ download.files[f].calls[c].op = "fillText"
            /\ download.files[f].calls[c].y = RAdd(I(135), RMul(R(13, 10), I(54)))
            /\ download.files[f].calls[c].x = I(108)

(* C16: preview and export agree on the text geometry of every layer: the  *)
(* maximum line width, the line-height multiplier, the offset of the first *)
(* line's top from the layer's anchor and the horizontal text anchor.      *)
C16_PreviewMatchesExport ==
    \A k \in 1..Len(textLayers) :
        LET layer == textLayers[k]
            n == Len(LayerCalls(layer, width, height))
        IN  {"x", "y", "fontSize", "align"} \subseteq DOMAIN layer
            => /\ PreviewMaxWidth(layer, width) = ExportMaxWidth(layer, width)
               /\ PreviewLineHeight(layer) = ExportLineHeight(layer)
               /\ PreviewFirstLineTop(layer, height, n) = ExportFirstLineTop(layer, width, height)
               /\ PreviewTextX(layer, width) = ExportTextX(layer, width, height)

(* C17: a raster export draws the background image first and then every    *)
(* text layer exactly once, in collection order; nothing is drawn before   *)
(* the background image has loaded.                                        *)
C17_BackgroundThenLayersInOrder ==
    [][ /\ download.pc = "imageLoad" => download.calls = <<>>
        /\ ExportSaves =>
              LET p == download.project
                  calls == SavedCalls
              IN  /\ calls # <<>>
                  /\ calls[1] = [op |-> "drawImage", image |-> p.background,
                                  w |-> p.width, h |-> p.height]
                  /\ \A i \in 2..Len(calls) :
                        /\ calls[i].op = "fillText"
                        /\ \E k \in 1..Len(p.textLayers) : p.textLayers[k].id = calls[i].layer
                  /\ \A i, j \in 2..Len(calls) :
                        i < j => PositionOf(p.textLayers, calls[i].layer)
                                   <= PositionOf(p.textLayers, calls[j].layer)
                  /\ \A k \in 1..Len(p.textLayers) :
                        TextsOf(calls, p.textLayers[k].id)
                          = DrawnLines(p.textLayers[k].text,
                                       ExportMaxWidth(p.textLayers[k], p.width))
      ]_vars

\* an export of two layers was saved, the second layer drawn after the first
C17_Witness ==
    /\ download.outcome = "saved"
    /\ Len(textLayers) = 2
    /\ \E f \in 1..Len(download.files) :
        /\ download.files[f].type = "png"
        /\ \E c, d \in 2..Len(download.files[f].calls) :
            /\ c < d
            /\ download.files[f].calls[c].layer = textLayers[1].id
            /\ download.files[f].calls[d].layer = textLayers[2].id

(* C18: when the background image fails to load during an export, the      *)
(* export aborts: no image is saved, an error is surfaced, and the         *)
(* project (its layers, its dimensions, its content) is unchanged.         *)
C18_FailedLoadAborts ==
    [][ (download.pc = "imageLoad" /\ download'.outcome = "failed")
        => /\ download'.pc = "idle"
           /\ download'.files = <<>>
           /\ error' = "Failed to download image."
           /\ UNCHANGED <<textLayers, width, height, project, selectedId>>
      ]_vars

\* an export of a design with a text layer has failed on its background image
C18_Witness ==
    /\ download.outcome = "failed"
    /\ download.files = <<>>
    /\ error = "Failed to download image."
    /\ Truthy(project.background)
    /\ textLayers # <<>>

(* C19: when the rendering context is unavailable at export time, the      *)
(* export reports an explicit, surfaced failure and never returns          *)
(* silently.                                                               *)
C19_NoContextIsSurfaced ==
    [][ ( /\ project.assetType \notin {"ICON", "LOGO"}
          /\ Truthy(project.background)
          /\ handleDownload("null") )
        => /\ download'.outcome = "failed"
           /\ error' # NoError
      ]_vars

(* C20: when the layout response is malformed (text that does not parse,   *)
(* an empty layer array, layers without required fields) the generation    *)
(* flow does not fail and the project ends with exactly one fallback       *)
(* layer: x = y = 50, align center, verticalAlign center, the brief        *)
(* uppercased as text, the font size of 8% and boxWidth 80.                *)
C20_MalformedResponseFallsBack ==
    [][ \A i \in 1..Len(generate), response \in MalformedResponses :
          layoutReturned(i, response)
          => /\ error' = error
             /\ ~project'.isGenerating /\ ~project'.isAnalyzing
             /\ textLayers' = <<DefaultLayer(generate[i].brief, nextId)>>
      ]_vars

(* C21: every layer created from a layout suggestion with font-size        *)
(* percentage pct gets fontSize = max(12, floor(min(W, H) * pct / 100))    *)
(* for the canvas dimensions W x H in force when the layers are applied,   *)
(* and keeps pct in fontSizePct.                                           *)
C21_FontSizeFromCanvasInForce ==
    [][ LayoutReturns =>
          \A k \in 1..Len(textLayers') :
            LET layer == textLayers'[k]
            IN  (layer.id >= nextId /\ "fontSizePct" \in DOMAIN layer)
                => layer.fontSize
                     = MathMax(I(12),
                               MathFloor(RDiv(RMul(MathMin(I(width'), I(height')),
                                                   layer.fontSizePct), I(100))))
      ]_vars

(* C22: updateLayer(id, fields) and removeLayer(id) with an id that is not *)
(* in the collection are no-ops: the members, the order and every field of *)
(* the collection are unchanged, and no error state is entered.            *)
C22_MissingIdIsNoOp ==
    [][ /\ \A id \in CallerIds \ IdSet(textLayers) :
              /\ removeTextLayer(id) = textLayers
              /\ \A updates \in UpdateInputs : updateTextLayer(id, updates) = textLayers
              /\ \A a \in Aligns :
                    handleTextLayerChange(id, "align", a) => UNCHANGED textLayers
        /\ (updateLayerCalled \/ removeLayerCalled) => error' = error
      ]_vars

\* a layer was removed and another is left: calls with the removed id find no layer
C22_Witness ==
    /\ textLayers # <<>>
    /\ \E id \in 1..(nextId - 1) : id \notin IdSet(textLayers)
    /\ error = NoError

(* C23: addLayer appends exactly one new layer at the end of the           *)
(* collection, with a fresh id and the defaults text "New Text",           *)
(* x = y = 50, align center, verticalAlign center and boxWidth 80, and     *)
(* leaves every existing layer and their order unchanged.                  *)
C23_AddAppendsDefaultLayer ==
    [][ addTextLayer =>
          /\ Len(textLayers') = Len(textLayers) + 1
          /\ SubSeq(textLayers', 1, Len(textLayers)) = textLayers
          /\ LET new == textLayers'[Len(textLayers')]
             IN  /\ new.id \notin IdSet(textLayers)
                 /\ new.id >= nextId
                 /\ new.text = <<"N", "e", "w", " ", "T", "e", "x", "t">>
                 /\ new.x = I(50) /\ new.y = I(50)
                 /\ new.align = "center" /\ new.verticalAlign = "center"
                 /\ new.boxWidth = I(80)
      ]_vars

\* a layer was added behind a layer that had been moved and narrowed before
C23_Witness ==
    /\ Len(textLayers) = 2
    /\ textLayers[1].x = I(10)
    /\ textLayers[1].boxWidth = I(20)
    /\ textLayers[2].text = <<"N", "e", "w", " ", "T", "e", "x", "t">>
    /\ textLayers[2].x = I(50)

(* C24: after any sequence of add, suggestion load, update, remove, reset  *)
(* and regenerate operations no two layers of the collection have the same *)
(* id, and a layer's id never changes: an id of the collection is either   *)
(* the id of a layer that was there before the step or an id never handed  *)
(* out before, and an update leaves the ids as they are.                   *)
C24_IdsUniqueAndStable ==
    [][ /\ \A i, j \in 1..Len(textLayers') :
              textLayers'[i].id = textLayers'[j].id => i = j
        /\ \A k \in 1..Len(textLayers') :
              textLayers'[k].id \in IdSet(textLayers) \/ textLayers'[k].id >= nextId
        /\ (updateLayerCalled \/ SidebarEdit) => Ids(textLayers') = Ids(textLayers)
      ]_vars

\* the second layer handed out outlived the first and was updated since
C24_Witness ==
    /\ Len(textLayers) = 1
    /\ textLayers[1].id = 2
    /\ textLayers[1].x = I(10)
    /\ nextId = 3

C26_FitScale ==
    /\ ( /\ view.isFitToScreen
         /\ RLess(I(0), AvailableViewport.width)
         /\ RLess(I(0), AvailableViewport.height)
         /\ width > 0 /\ height > 0 )
       => /\ currentScale = MathMin(MathMin(RDiv(AvailableViewport.width, I(width)),
                                            RDiv(AvailableViewport.height, I(height))),
                                    I(1))
          /\ RLess(I(0), currentScale)
          /\ RLeq(currentScale, I(1))
    /\ ~view.isFitToScreen => currentScale = view.zoomLevel

(* C27: a confirmed project reset and the start of a full regenerate each  *)
(* discard the entire layer collection: immediately afterwards textLayers  *)
(* is empty; and after a layout (re)generation succeeds the collection     *)
(* holds only newly created layers, none with an id that existed before.   *)
C27_ResetAndRegenerateDiscardLayers ==
    [][ /\ handleReset => textLayers' = <<>>
        /\ (handleGenerate /\ project.brief # EmptyString) => textLayers' = <<>>
        /\ LayoutReturns =>
              \/ textLayers' = textLayers
              \/ \A k \in 1..Len(textLayers') :
                    /\ textLayers'[k].id \notin IdSet(textLayers)
                    /\ textLayers'[k].id >= nextId
      ]_vars

\* the layer of a first layout was replaced by the layer of a later one
C27_Witness ==
    /\ Len(textLayers) = 1
    /\ textLayers[1].id = 2
    /\ Truthy(project.background)
    /\ ~project.isAnalyzing

(* C28: resetting the project, or regenerating, which replaces all         *)
(* layers, discards any in-flight interaction: immediately afterwards the  *)
(* interaction state is Idle.                                              *)
C28_ResetEndsInteraction ==
    [][ /\ handleReset => interaction' = Idle
        /\ (LayoutReturns /\ textLayers' # textLayers) => interaction' = Idle
      ]_vars

(* C29: in every reachable project state the raster background and the     *)
(* vector content are mutually exclusive: background and svgContent are    *)
(* never both non-null, across any interleaving of generate, remix and     *)
(* reset with pending remote results.                                      *)
C29_BackgroundXorSvg ==
    ~(project.background # NoImage /\ project.svgContent # NoSvg)

(* C30: canvas width and height are integers greater than 0 in every       *)
(* reachable state, and they are locked once generation begins: from the   *)
(* start of a generate until the next reset no user action changes them.   *)
C30_DimensionsPositiveAndLocked ==
    [][ /\ width' > 0
        /\ height' > 0
        /\ GenerationBegun => (width' = width /\ height' = height)
      ]_vars

(* C31: interaction updates touch only their own fields of their own       *)
(* layer: a pointer-move in a resizing state changes only boxWidth of the  *)
(* interaction's layer (x and y unchanged, whatever the vertical pointer   *)
(* delta), a pointer-move in Moving changes only x and y of that layer,    *)
(* and no pointer event changes any field of any other layer.              *)
C31_InteractionTouchesOwnFields ==
    [][ /\ \A e \in Points, scale \in Scales :
            ( /\ textLayers' # textLayers
              /\ handleMouseMove(e, BoundingClientRect(scale)) )
            => /\ Len(textLayers') = Len(textLayers)
               /\ \A k \in 1..Len(textLayers) :
                    LET old == textLayers[k]
                        new == textLayers'[k]
                        own == interaction # Idle /\ old.id = interaction.layerId
                        written == IF ~own THEN {}
                                   ELSE IF interaction.type = "moving" THEN {"x", "y"}
                                   ELSE {"boxWidth"}
                    IN  /\ DOMAIN new \ written = DOMAIN old \ written
                        /\ \A f \in DOMAIN old \ written : new[f] = old[f]
        /\ (interaction' # interaction \/ selectedId' # selectedId)
            => textLayers' = textLayers
      ]_vars

\* during a resize of one of two layers the width has left its baseline while
\* the pointer is also away vertically, and the anchor is where it was
C31_Witness ==
    /\ Len(textLayers) = 2
    /\ interaction # Idle
    /\ interaction.type = "resizing_right"
    /\ interaction.layerId \in LayerIds
    /\ Find(interaction.layerId).boxWidth # interaction.initial.boxWidth
    /\ Find(interaction.layerId).x = interaction.initial.x
    /\ Find(interaction.layerId).y = interaction.initial.y

(* C37: the selection never dangles: after any sequence of operations,     *)
(* removeLayer, project reset and layout regeneration included, the        *)
(* selected layer id is either null or the id of a layer currently in the  *)
(* collection.                                                             *)
C37_SelectionNeverDangles ==
    selectedId = NullId \/ selectedId \in LayerIds

(* C38: line wrapping neither loses, duplicates nor reorders words: for    *)
(* every text and maxWidth, the words of the output lines, concatenated in *)
(* order, are exactly the non-empty words of the input; there is always at *)
(* least one output line; and every output line holding two or more words  *)
(* measures at most maxWidth.                                              *)
C38_WrapKeepsWordsWithinWidth ==
    [][ ExportSaves =>
          \A k \in 1..Len(download.project.textLayers) :
            LET layer == download.project.textLayers[k]
                lines == TextsOf(SavedCalls, layer.id)
                maxWidth == ExportMaxWidth(layer, download.project.width)
            IN  /\ Len(lines) >= 1
                /\ WordsOfLines(lines) = WordsOf(layer.text)
                /\ \A i \in 1..Len(lines) :
                      Len(WordsOf(lines[i])) >= 2 => RLeq(measureText(lines[i]), maxWidth)
      ]_vars

(* C32: a layout-suggestion result is applied only to the project epoch    *)
(* that requested it: when a reset or a new generate happened while the    *)
(* analysis was in flight (the background the analysis was requested for   *)
(* is gone), the late result changes neither textLayers nor the            *)
(* isAnalyzing flag of the newer project state.                            *)
C32_LateLayoutResultIgnored ==
    [][ (LayoutReturns /\ project.background = NoImage)
        => /\ textLayers' = textLayers
           /\ project'.isAnalyzing = project.isAnalyzing
      ]_vars

(* C33: at most one remote generation or layout-analysis request started   *)
(* by this project is outstanding at any time: under the gating of the     *)
(* Generate, Remix Layout and New controls no sequence of user actions     *)
(* starts a second request while an earlier one is still pending.          *)
C33_AtMostOneRequestOutstanding ==
    Len(generate) <= 1

(* C34: text layers never coexist with vector content: in every reachable  *)
(* state svgContent non-null implies that textLayers is empty, also when a *)
(* layout result of an earlier poster or slide generation arrives after    *)
(* the project was reset and regenerated as an icon or logo.               *)
C34_NoLayersWithSvg ==
    project.svgContent # NoSvg => textLayers = <<>>

(* C39: when a layout regeneration fails because the remote call throws,   *)
(* the existing text layers and the background are left exactly as they    *)
(* were, isAnalyzing returns to false and an error is reported.            *)
C39_FailedRemixKeepsLayers ==
    [][ \A i \in 1..Len(generate) :
            regenerateLayoutReturned(i, [kind |-> "throws"])
            => /\ textLayers' = textLayers
               /\ project'.background = project.background
               /\ project'.isAnalyzing = FALSE
               /\ error' = "Failed to regenerate layout."
      ]_vars

\* a remix has failed on a project that still shows its layer and its background
C39_Witness ==
    /\ error = "Failed to regenerate layout."
    /\ textLayers # <<>>
    /\ Truthy(project.background)
    /\ ~project.isAnalyzing

(* C35: every started generate or regenerate-layout flow eventually leaves *)
(* the project with isGenerating = false and isAnalyzing = false, whether  *)
(* the remote calls succeed or fail, given that every issued remote call   *)
(* eventually returns or throws: the busy flags are never left set         *)
(* forever.                                                                *)
C35_BusyFlagsEventuallyCleared ==
    (project.isGenerating \/ project.isAnalyzing)
        ~> (~project.isGenerating /\ ~project.isAnalyzing)


\* how many times the horizontal percent delta enters the width of a resize
WidthFactor(type, align) ==
    IF type = "resizing_right"
    THEN (IF align = "left" THEN 1 ELSE IF align = "center" THEN 2 ELSE -1)
    ELSE (IF align = "right" THEN -1 ELSE IF align = "center" THEN -2 ELSE 0)

(* C36: within one interaction a drag is path-independent: every pointer-  *)
(* move sets the layer's x and y (move) or boxWidth (resize) to a value    *)
(* computed from the baseline captured at pointer-down and the pointer     *)
(* position of that move alone, whatever the earlier moves left in the     *)
(* layer; with the pointer back at its pointer-down position the layer     *)
(* has the baseline values again when those lie within the clamp ranges.   *)
C36_DragIsPathIndependent ==
    [][ (interaction # Idle /\ interaction' = interaction /\ interaction.layerId \in LayerIds) =>
            \A e \in FinePoints, scale \in Scales :
            LET b == interaction.initial
                dx == screenDeltaToPercent(e.clientX - interaction.startX, width, scale)
                dy == screenDeltaToPercent(e.clientY - interaction.startY, height, scale)
                k == WidthFactor(interaction.type, Find(interaction.layerId).align)
                L == LayerIn(textLayers', interaction.layerId)
                back == e.clientX = interaction.startX /\ e.clientY = interaction.startY
            IN  handleMouseMove(e, BoundingClientRect(scale)) =>
                    IF interaction.type = "moving"
                    THEN /\ L.x = Clamped(RAdd(b.x, dx), -20, 120)
                         /\ L.y = Clamped(RAdd(b.y, dy), -20, 120)
                         /\ (back /\ Within(b.x, -20, 120)) => L.x = b.x
                         /\ (back /\ Within(b.y, -20, 120)) => L.y = b.y
                    ELSE /\ L.boxWidth = Clamped(RAdd(b.boxWidth, RMul(I(k), dx)), 5, 100)
                         /\ (back /\ Within(b.boxWidth, 5, 100)) => L.boxWidth = b.boxWidth
      ]_vars

\* pointer-moves have taken a drag away from a baseline that lies within the
\* clamp range, in both directions: the move back to the pointer-down
\* position is the one that has to restore it
C36_Witness ==
    /\ Engaged("moving")
    /\ Within(interaction.initial.x, -20, 120)
    /\ Within(interaction.initial.y, -20, 120)
    /\ Find(interaction.layerId).x # interaction.initial.x
    /\ Find(interaction.layerId).y # interaction.initial.y


\* the zoom level is between the limits of the zoom controls, 10% and 300%
ZoomInRange(v) == RLeq(R(1, 10), v.zoomLevel) /\ RLeq(v.zoomLevel, I(3))

(* C40: after any sequence of zoom-in, zoom-out, fit-to-screen and reset   *)
(* the zoom level is within [0.1, 3.0]; zoom-in and zoom-out turn fit      *)
(* mode off; fit-to-screen and reset turn it on and leave the stored zoom  *)
(* level as it is.                                                         *)
C40_ZoomWithinLimits ==
    [][ /\ ZoomInRange(view) /\ ZoomInRange(view')
        /\ (handleZoomIn \/ handleZoomOut) => ~view'.isFitToScreen
        /\ (handleFitToScreen \/ handleReset)
            => /\ view'.isFitToScreen
               /\ view'.zoomLevel = view.zoomLevel
      ]_vars

\* New has been confirmed after zooming in to the upper limit, while the
\* layout call was still running: the project is empty and idle with the call
\* pending, fit mode is on and the stored zoom level is still 300%
C40_Witness ==
    /\ view.zoomLevel = I(3)
    /\ view.isFitToScreen
    /\ generate # NoGenerate
    /\ ~project.isGenerating /\ ~project.isAnalyzing
    /\ ~hasContent

====
